---- MODULE Spec2Model ----
(***************************************************************************)
(* TrueFew social app (src/script.js, Firebase variant, lines 1-5221).     *)
(*                                                                         *)
(* Each browser ("client") has its JavaScript globals (js), its            *)
(* localStorage, its location and its Firebase auth session (auth).  The   *)
(* backend holds the auth accounts and the Firestore user documents.       *)
(* A JavaScript function is an operator from a client environment          *)
(* [js, ls, path] to the environment it leaves behind; a handler that      *)
(* awaits the backend is an action (or several, one per await that the     *)
(* claims interleave).                                                     *)
(*                                                                         *)
(* Where script.js declares a function twice, the later declaration is the *)
(* one that runs (function hoisting); the earlier one is modelled only     *)
(* where a property compares the two.  DOM elements are assumed present.   *)
(***************************************************************************)
EXTENDS Integers, Sequences, FiniteSets, TLC

(***************************************************************************)
(* Bounds                                                                  *)
(***************************************************************************)
MaxAuthEvents == 2
NumInterests == 8
MaxPwLen == 8
MaxShares == 1
MaxComments == 1
MaxRedirects == 2
MaxLocalPosts == 4
MaxFriends == 3
MaxMessages == 3

(***************************************************************************)
(* Values                                                                  *)
(***************************************************************************)
Clients == {"c1", "c2"}
Uids == {"u1", "u2"}

\* JavaScript null / undefined, and ids (sample users carry numbers,
\* Firebase users carry uid strings).
Null == [t |-> "null"]
Undef == [t |-> "undefined", v |-> ""]
Num(s) == [t |-> "number", v |-> s]
Arr(s) == [t |-> "array", v |-> s]
IsArray(x) == x.t = "array"
Str(s) == [t |-> "string", v |-> s]

\* a == b and a === b on ids
looseEq(a, b) ==
    IF a.t = "undefined" \/ b.t = "undefined" THEN a.t = b.t ELSE a.v = b.v
strictEq(a, b) == a = b
truthy(id) == id.t \notin {"undefined", "null"}

EmailOf(uid) == IF uid = "u1" THEN "e1@x" ELSE "e2@x"
Emails == {EmailOf(u) : u \in Uids}
UidOfEmail(email) == CHOOSE u \in Uids : EmailOf(u) = email

\* String.prototype.toLowerCase on the usernames of the model
toLowerCase(s) ==
    CASE s = "Amy" -> "amy"
      [] s = "Bob" -> "bob"
      [] OTHER -> s
FormUsernames == {"amy", "Amy", "bob"}

\* localStorage values: getItem gives null (Absent), a string that is not
\* JSON (Corrupt), or the JSON text of a value.
Absent == [kind |-> "absent"]
Corrupt == [kind |-> "corrupt"]
JSON_stringify(v) == [kind |-> "json", val |-> v]
JSON_parse(s) == s.val
ParseThrows(s) == s.kind = "corrupt"

\* location.pathname as a sequence of segments
Path(name) == <<"/", name>>
RootPath == <<"/">>

FirstN(n) == [i \in 1..n |-> i]
MinInterests == 8

(***************************************************************************)
(* State                                                                   *)
(***************************************************************************)
VARIABLES
    js,            \* per client: the globals of script.js
    localStorage,  \* per client: the truefew_* keys
    location,      \* per client: window.location.pathname
    auth,          \* per client: Firebase session and pending listener calls
    accounts,      \* backend: auth accounts
    userDocs,      \* backend: Firestore users collection
    postDocs,      \* backend: Firestore posts collection
    inflight,      \* per client: handlers suspended at an await
    passwordCheck, \* a password handed to validatePassword, and the answer
    last           \* the last handler that ran, and how it ended

vars == <<js, localStorage, location, auth, accounts, userDocs, postDocs,
          inflight, passwordCheck, last>>

NoDoc == [exists |-> FALSE]

InitialJs ==
    [currentUser |-> Null,
     users |-> <<>>,
     posts |-> <<>>,
     messages |-> <<>>,
     userNewsSubscriptions |-> <<>>,
     currentPage |-> "landing",
     selectedInterests |-> <<>>,
     isRestoringNavigationState |-> FALSE,
     isInitialPageLoad |-> TRUE,
     restoreTimer |-> FALSE,
     isSignedInMode |-> FALSE,
     navbarUpdateInProgress |-> FALSE,
     currentEditingPostId |-> Null,
     currentDeletingPostId |-> Null,
     sharedArrays |-> {},
     notification |-> "none",
     phase |-> "loading"]

EmptyStorage ==
    [users |-> Absent,
     posts |-> Absent,
     messages |-> Absent,
     news_subscriptions |-> Absent,
     current_user |-> Absent,
     navigation_state |-> Absent,
     dev_mode |-> Absent]

PersistedKeys ==
    {"users", "posts", "messages", "news_subscriptions", "current_user"}

Env(c) == [js |-> js[c], ls |-> localStorage[c], path |-> location[c]]

showNotification(e, type) == [e EXCEPT !.js.notification = type]

(***************************************************************************)
(* Navigation state and pages                                              *)
(***************************************************************************)
setNavigationState(e, page, userId) ==
    IF e.js.isRestoringNavigationState /\ page = "landing"
    THEN e
    ELSE [e EXCEPT !.ls.navigation_state =
                        JSON_stringify([page |-> page, userId |-> userId])]

getNavigationState(e) ==
    IF e.ls.navigation_state.kind = "json"
    THEN JSON_parse(e.ls.navigation_state)
    ELSE [page |-> "none", userId |-> Null]

\* JSON.stringify writes an undefined element of an array as null
ArrayToJSON(x) ==
    IF IsArray(x)
    THEN Arr([i \in 1..Len(x.v) |-> IF x.v[i].t = "undefined" THEN Null ELSE x.v[i]])
    ELSE x

UserToJSON(u) ==
    [u EXCEPT !.friends = ArrayToJSON(@), !.friendRequests = ArrayToJSON(@),
              !.messages = ArrayToJSON(@)]

UsersToJSON(list) == [i \in 1..Len(list) |-> UserToJSON(list[i])]

saveDataToStorage(e) ==
    LET e1 == [e EXCEPT !.ls.users = JSON_stringify(UsersToJSON(e.js.users)),
                        !.ls.posts = JSON_stringify(e.js.posts),
                        !.ls.messages = JSON_stringify(e.js.messages),
                        !.ls.news_subscriptions =
                            JSON_stringify(e.js.userNewsSubscriptions)]
    IN IF e.js.currentUser # Null
       THEN [e1 EXCEPT !.ls.current_user =
                           JSON_stringify(UserToJSON(e.js.currentUser))]
       ELSE e1

ensureDemoPosts(e) ==
    IF Len(e.js.posts) = 0 /\ Len(e.js.users) > 0
    THEN saveDataToStorage(
            [e EXCEPT !.js.posts =
                 <<[id |-> Num("1"), authorId |-> e.js.users[1].id]>>])
    ELSE e

showLandingPage(e) ==
    setNavigationState([e EXCEPT !.js.currentPage = "landing"], "landing", Null)

showDashboardPage(e) ==
    ensureDemoPosts(
        setNavigationState([e EXCEPT !.js.currentPage = "dashboard"],
                           "dashboard", Null))

showProfilePage(e, userId) ==
    setNavigationState([e EXCEPT !.js.currentPage = "profile"],
                       "profile", userId)

\* users.find(u => pred(u)): the first match, or Null
FindUser(list, Pred(_)) ==
    LET hits == {i \in 1..Len(list) : Pred(list[i])}
    IN IF hits = {} THEN Null
       ELSE list[CHOOSE i \in hits : \A j \in hits : i <= j]

Current == Str("current")

\* handleRoute that sends a guest on /dashboard to /dashboard again
handleRouteOnceLoop(e, path) ==
    LET route == IF Len(path) > 0 /\ Head(path) = "/" THEN Tail(path) ELSE path
        Shown(x) == [env |-> x, redirect |-> FALSE, to |-> path]
        Redirect(to) == [env |-> e, redirect |-> TRUE, to |-> to]
    IN IF route = <<>> \/ route = <<"home">>
       THEN Shown(showLandingPage(e))
       ELSE IF route = <<"dashboard">>
       THEN IF e.js.currentUser # Null
            THEN Shown(showDashboardPage(e))
            ELSE Redirect(Path("dashboard"))
       ELSE LET username == route[1]
            IN IF e.js.currentUser # Null
               THEN IF username = e.js.currentUser.username
                    THEN Shown(showProfilePage(e, Current))
                    ELSE LET user == FindUser(e.js.users,
                                        LAMBDA u : u.username = username)
                         IN IF user # Null
                            THEN Shown(showProfilePage(e, user.id))
                            ELSE Redirect(Path("dashboard"))
               ELSE Redirect(Path("home"))

\* One call of handleRoute: the page it shows, or the path it passes to
\* this.navigate(..., true).
handleRouteOnce(e, path) ==
    LET route == IF Len(path) > 0 /\ Head(path) = "/" THEN Tail(path) ELSE path
        Shown(x) == [env |-> x, redirect |-> FALSE, to |-> path]
        Redirect(to) == [env |-> e, redirect |-> TRUE, to |-> to]
    IN IF route = <<>> \/ route = <<"home">>
       THEN Shown(showLandingPage(e))
       ELSE IF route = <<"dashboard">>
       THEN IF e.js.currentUser # Null
            THEN Shown(showDashboardPage(e))
            ELSE Redirect(Path("home"))
       ELSE LET username == route[1]
            IN IF e.js.currentUser # Null
               THEN IF username = e.js.currentUser.username
                    THEN Shown(showProfilePage(e, Current))
                    ELSE LET user == FindUser(e.js.users,
                                        LAMBDA u : u.username = username)
                         IN IF user # Null
                            THEN Shown(showProfilePage(e, user.id))
                            ELSE Redirect(Path("dashboard"))
               ELSE Redirect(Path("home"))

\* The chain of redirects that a call of handleRoute starts, followed for at
\* most fuel redirects; done says that the chain ended within them.
RECURSIVE FollowRoute(_, _, _)
FollowRoute(e, path, fuel) ==
    LET Continue(r) ==
            IF ~r.redirect THEN [env |-> r.env, done |-> TRUE, fuel |-> fuel]
            ELSE IF fuel = 0 THEN [env |-> r.env, done |-> FALSE, fuel |-> 0]
            ELSE FollowRoute([r.env EXCEPT !.path = r.to], r.to, fuel - 1)
    IN Continue(handleRouteOnce(e, path))

handleRoute(e, path) == FollowRoute(e, path, MaxRedirects).env

navigate(e, path) == handleRoute([e EXCEPT !.path = path], path)

showLanding(e) == navigate(e, Path("home"))

showDashboard(e) ==
    IF e.js.currentUser = Null THEN e ELSE navigate(e, Path("dashboard"))

LookupUser(e, userId) ==
    IF userId = Current
    THEN e.js.currentUser
    ELSE FindUser(e.js.users,
                  LAMBDA u : looseEq(u.id, userId) \/ strictEq(u.uid, userId))

showProfile(e, userId) ==
    LET user == LookupUser(e, userId)
    IN IF user # Null
       THEN navigate(e, Path(user.username))
       ELSE navigate(showNotification(e, "danger"), Path("dashboard"))

restoreNavigationState(e) ==
    LET state == getNavigationState(e)
        armed == [e EXCEPT !.js.isRestoringNavigationState = TRUE,
                           !.js.restoreTimer = TRUE]
    IN IF state.page = "profile" /\ state.userId # Null
       THEN LET user == LookupUser(e, state.userId)
            IN [restored |-> TRUE,
                env |-> IF user # Null
                        THEN navigate(armed, Path(user.username))
                        ELSE navigate(armed, Path("dashboard"))]
       ELSE IF state.page = "dashboard"
       THEN [restored |-> TRUE, env |-> navigate(armed, Path("dashboard"))]
       ELSE [restored |-> FALSE, env |-> e]

(***************************************************************************)
(* Navbar                                                                  *)
(***************************************************************************)
updateNavbarForSignedInUser(e) ==
    IF e.js.navbarUpdateInProgress
    THEN e
    ELSE LET entered == [e EXCEPT !.js.navbarUpdateInProgress = TRUE]
             body == [entered EXCEPT !.js.isSignedInMode = TRUE]
         IN [body EXCEPT !.js.navbarUpdateInProgress = FALSE]

updateNavbarForSignedOutUser(e) == [e EXCEPT !.js.isSignedInMode = FALSE]

\* updateNavbarForSignedInUser statement by statement.  While it runs the page
\* is in none of the phases in which a handler can start (run to completion).
NavbarPhases == {"navbar.try", "navbar.catch", "navbar.finally"}

\* if (navbarUpdateInProgress) return; navbarUpdateInProgress = true;
updateNavbarEnter(e) ==
    IF e.js.navbarUpdateInProgress
    THEN e
    ELSE [e EXCEPT !.js.navbarUpdateInProgress = TRUE, !.js.phase = "navbar.try"]

\* try { isSignedInMode = true; ... } where a later statement may throw
updateNavbarTry(e, throws) ==
    [e EXCEPT !.js.isSignedInMode = TRUE,
              !.js.phase = IF throws THEN "navbar.catch" ELSE "navbar.finally"]

\* a catch clause that returns to the caller without a finally clause
updateNavbarCatchReturns(e) == [e EXCEPT !.js.phase = "ready"]

\* catch (error) { console.error(...) }
updateNavbarCatch(e) == [e EXCEPT !.js.phase = "navbar.finally"]

\* finally { navbarUpdateInProgress = false; }
updateNavbarFinally(e) ==
    [e EXCEPT !.js.navbarUpdateInProgress = FALSE, !.js.phase = "ready"]

(***************************************************************************)
(* Start-up: initializeApp and loadSampleData                              *)
(***************************************************************************)
SampleUser(n, name, mail) ==
    [id |-> Num(n), uid |-> Undef, username |-> name, email |-> mail,
     interests |-> FirstN(MinInterests),
     friends |-> Arr(<<>>), friendRequests |-> Arr(<<>>),
     messages |-> Arr(<<>>)]

SampleUsers ==
    <<[SampleUser("1", "alexj", "alex@example.com")
           EXCEPT !.friends = Arr(<<Num("2"), Num("3")>>),
                  !.messages = Arr(<<Num("2")>>)],
      [SampleUser("2", "sarahc", "sarah@example.com")
           EXCEPT !.friends = Arr(<<Num("1")>>),
                  !.friendRequests = Arr(<<Num("3")>>),
                  !.messages = Arr(<<Num("1")>>)],
      [SampleUser("3", "mikez", "mike@example.com")
           EXCEPT !.friends = Arr(<<Num("1")>>)]>>

SamplePosts ==
    <<[id |-> Num("1"), authorId |-> Num("1")],
      [id |-> Num("2"), authorId |-> Num("2")],
      [id |-> Num("3"), authorId |-> Num("3")]>>

\* if (!currentUser.id && currentUser.uid) currentUser.id = currentUser.uid
NormalizeId(u) ==
    IF ~truthy(u.id) /\ truthy(u.uid) THEN [u EXCEPT !.id = u.uid] ELSE u

\* x || [] and Array.isArray(x) ? x : [] for a property holding an array or
\* nothing
OrEmpty(x) == IF IsArray(x) THEN x ELSE Arr(<<>>)

\* the properties of currentUser that hold an array
ArraysOf(u) ==
    {k \in {"friends", "friendRequests", "messages"} : IsArray(u[k])}

\* currentUser.friends = Array.isArray(currentUser.friends) ? ... : []
NormalizeArrays(u) ==
    [u EXCEPT !.friends = OrEmpty(@), !.friendRequests = OrEmpty(@),
              !.messages = OrEmpty(@)]

\* The steps of initializeApp in order; each one takes the environment the
\* step before it left.  The outer catch removes truefew_current_user only.
initializeApp(e) ==
    LET Catch(x) ==
            showNotification([x EXCEPT !.ls.current_user = Absent], "warning")
        AutoLogin(loaded) ==
            IF loaded.js.isInitialPageLoad
               /\ getNavigationState(loaded).page \notin {"none", "landing"}
            THEN loaded
            ELSE showDashboard(loaded)
        LoadCurrentUser(e4) ==
            IF ParseThrows(e4.ls.current_user) THEN Catch(e4)
            ELSE IF e4.ls.current_user.kind = "json"
            THEN AutoLogin(updateNavbarForSignedInUser(
                     [e4 EXCEPT !.js.currentUser =
                          NormalizeId(JSON_parse(e4.ls.current_user))]))
            ELSE e4
        LoadNews(e3) ==
            IF ParseThrows(e3.ls.news_subscriptions) THEN Catch(e3)
            ELSE LoadCurrentUser(
                     IF e3.ls.news_subscriptions.kind = "json"
                     THEN [e3 EXCEPT !.js.userNewsSubscriptions =
                                         JSON_parse(e3.ls.news_subscriptions)]
                     ELSE e3)
        LoadMessages(e2) ==
            IF ParseThrows(e2.ls.messages) THEN Catch(e2)
            ELSE LoadNews(IF e2.ls.messages.kind = "json"
                          THEN [e2 EXCEPT !.js.messages = JSON_parse(e2.ls.messages)]
                          ELSE e2)
        LoadPosts(e1) ==
            LoadMessages(IF e1.ls.posts.kind = "absent"
                         THEN e1
                         ELSE IF ParseThrows(e1.ls.posts)
                         THEN [e1 EXCEPT !.ls.posts = Absent]
                         ELSE IF Len(JSON_parse(e1.ls.posts)) > 0
                         THEN [e1 EXCEPT !.js.posts = JSON_parse(e1.ls.posts)]
                         ELSE e1)
        LoadUsers(e0) ==
            IF ParseThrows(e0.ls.users) THEN Catch(e0)
            ELSE LoadPosts(IF e0.ls.users.kind = "json"
                           THEN [e0 EXCEPT !.js.users = JSON_parse(e0.ls.users)]
                           ELSE e0)
    IN LoadUsers(handleRoute(e, e.path))

loadSampleData(e) ==
    IF Len(e.js.users) = 0
    THEN LET seeded == [e EXCEPT !.js.users = SampleUsers,
                                 !.js.posts = SamplePosts]
         IN IF e.ls.posts.kind = "absent"
            THEN saveDataToStorage(seeded)
            ELSE seeded
    ELSE e

ensureCurrentUserInUsersArray(e) ==
    LET cu == NormalizeId(e.js.currentUser)
        e1 == [e EXCEPT !.js.currentUser = cu]
        existing == FindUser(e.js.users,
                        LAMBDA u : strictEq(u.id, cu.id)
                                   \/ (truthy(cu.uid) /\ strictEq(u.uid, cu.uid)))
    IN IF e.js.currentUser = Null THEN e
       ELSE IF ~truthy(cu.id) THEN e1
       ELSE IF existing = Null
       THEN saveDataToStorage(
                [e1 EXCEPT !.js.users = Append(e.js.users,
                    [id |-> cu.id, uid |-> cu.uid, username |-> cu.username,
                     email |-> cu.email, interests |-> cu.interests,
                     friends |-> OrEmpty(cu.friends),
                     friendRequests |-> OrEmpty(cu.friendRequests),
                     messages |-> OrEmpty(cu.messages)]),
                          !.js.sharedArrays = ArraysOf(cu)])
       ELSE e1

\* shareNewsAsPost: a post pushed to the local posts array and persisted
shareNewsAsPost(e) ==
    saveDataToStorage(
        [e EXCEPT !.js.posts =
             Append(e.js.posts,
                    [id |-> Num(ToString(Len(e.js.posts) + 1)),
                     authorId |-> e.js.currentUser.id])])

(***************************************************************************)
(* Firebase auth session of one browser                                    *)
(***************************************************************************)
NoUser == "none"

auth_signIn(a, uid) ==
    IF a.user = uid THEN a
    ELSE [user |-> uid, events |-> Append(a.events, uid)]

auth_signOut(a) ==
    IF a.user = NoUser THEN a
    ELSE [user |-> NoUser, events |-> Append(a.events, NoUser)]

isDevelopmentMode(e) ==
    e.ls.dev_mode.kind = "json" /\ JSON_parse(e.ls.dev_mode) = "true"

\* { uid: user.uid, ...userDoc.data() }
\* a property of a document, undefined when the document does not carry it
DocField(doc, k) == IF k \in DOMAIN doc THEN doc[k] ELSE Undef

\* currentUser = { uid: user.uid, ...userDoc.data() }
ProfileOf(uid, doc) ==
    [uid |-> Str(uid), id |-> Undef, username |-> doc.username,
     email |-> doc.email, interests |-> doc.interests,
     friends |-> DocField(doc, "friends"),
     friendRequests |-> DocField(doc, "friendRequests"),
     messages |-> DocField(doc, "messages")]

Commit(c, e) ==
    /\ js' = [js EXCEPT ![c] = e.js]
    /\ localStorage' = [localStorage EXCEPT ![c] = e.ls]
    /\ location' = [location EXCEPT ![c] = e.path]

Ready(c) == js[c].phase = "ready"

(***************************************************************************)
(* Session handlers                                                        *)
(***************************************************************************)
NoPasswordCheck == [input |-> <<>>, result |-> "none"]

Idle ==
    [signUp |-> [pc |-> "idle", username |-> "", email |-> ""],
     toggleLike |-> [pc |-> "idle", postId |-> "", likes |-> <<>>]]

\* What the last handler was and how it ended, and where the browser is in
\* the "sign in, sign out, reload" and "reload, restore" stories.
NextSession(op, outcome) ==
    IF (op = "submitSignIn" /\ outcome = "signedIn")
       \/ (op = "onAuthStateChanged" /\ outcome = "loaded")
    THEN "signedIn"
    ELSE IF op = "signOut" /\ last.session = "signedIn" THEN "signedOut"
    ELSE last.session

NextStage(op, outcome) ==
    IF op = "reload" THEN "reloaded"
    ELSE IF op \in {"restoreTimer", "verifyEmail"} THEN last.stage
    ELSE IF op = "initializeApp" /\ last.stage = "reloaded" THEN "initialized"
    ELSE IF op = "onAuthStateChanged" /\ last.stage = "initialized"
    THEN IF outcome = "noUser" THEN "settledNoUser"
         ELSE IF outcome = "loaded" THEN "settledUser"
         ELSE "none"
    ELSE "none"

DoneWith(op, c, outcome, calls, form) ==
    last' = [op |-> op, client |-> c, outcome |-> outcome,
             calls |-> calls, form |-> form,
             session |-> NextSession(op, outcome),
             stage |-> NextStage(op, outcome),
             afterSignOut |-> IF op = "reload" THEN last.session = "signedOut"
                              ELSE last.afterSignOut,
             navAtReload |-> IF op = "reload" THEN getNavigationState(Env(c))
                             ELSE last.navAtReload]

NoForm == [username |-> ""]

Done(op, c, outcome) == DoneWith(op, c, outcome, <<>>, NoForm)

\* location.reload(): the globals start over; localStorage, the URL and the
\* Firebase session survive, and Firebase reports the session once more.
Reload(c) ==
    /\ Ready(c)
    /\ js' = [js EXCEPT ![c] = InitialJs]
    /\ auth' = [auth EXCEPT ![c].events = <<auth[c].user>>]
    /\ Done("reload", c, "ok")
    /\ UNCHANGED <<localStorage, location, accounts, userDocs, postDocs, inflight, passwordCheck>>

DOMContentLoaded(c) ==
    /\ js[c].phase = "loading"
    /\ LET e == loadSampleData(initializeApp(Env(c)))
       IN Commit(c, [e EXCEPT !.js.phase = "ready"])
    /\ Done("initializeApp", c, "ok")
    /\ UNCHANGED <<auth, accounts, userDocs, postDocs, inflight, passwordCheck>>

\* the callback registered with auth.onAuthStateChanged
onAuthStateChanged(e, user, verified, doc, dbFails) ==
    LET signedOut ==
            LET e1 == updateNavbarForSignedOutUser(
                          [e EXCEPT !.js.currentUser = Null, !.js.sharedArrays = {}])
                storedState == getNavigationState(e1)
            IN IF storedState.page # "none" /\ storedState.page # "landing"
               THEN e1
               ELSE IF e1.js.currentPage # "landing" THEN showLanding(e1)
               ELSE e1
        loaded ==
            LET e1 == updateNavbarForSignedInUser(
                          ensureCurrentUserInUsersArray(
                              [e EXCEPT !.js.currentUser =
                                   NormalizeArrays(
                                       NormalizeId(ProfileOf(user, doc))),
                                        !.js.sharedArrays = {}]))
                r == restoreNavigationState(e1)
                e2 == IF r.restored THEN r.env ELSE showDashboard(e1)
            IN [e2 EXCEPT !.js.isInitialPageLoad = FALSE]
    IN IF user # NoUser
       THEN IF verified \/ isDevelopmentMode(e)
            THEN IF ~dbFails /\ doc # NoDoc
                 THEN [env |-> loaded, signOut |-> FALSE, outcome |-> "loaded"]
                 ELSE [env |-> e, signOut |-> TRUE, outcome |-> "noProfile"]
            ELSE [env |-> signedOut, signOut |-> FALSE,
                  outcome |-> "unverified"]
       ELSE [env |-> signedOut, signOut |-> FALSE, outcome |-> "noUser"]

AuthStateChanged(c, dbFails) ==
    /\ Ready(c)
    /\ auth[c].events # <<>>
    /\ LET user == Head(auth[c].events)
           rest == [auth[c] EXCEPT !.events = Tail(auth[c].events)]
           r == onAuthStateChanged(Env(c), user,
                    user # NoUser /\ accounts[user] = "verified",
                    IF user # NoUser THEN userDocs[user] ELSE NoDoc, dbFails)
       IN /\ Commit(c, r.env)
          /\ auth' = [auth EXCEPT ![c] = IF r.signOut THEN auth_signOut(rest)
                                         ELSE rest]
          /\ Done("onAuthStateChanged", c, r.outcome)
    /\ UNCHANGED <<accounts, userDocs, postDocs, inflight, passwordCheck>>

submitSignIn(e, a, uid, credentialsOk, verified, doc) ==
    IF ~credentialsOk
    THEN [env |-> e, auth |-> a, outcome |-> "error"]
    ELSE LET a1 == auth_signIn(a, uid)
         IN IF ~verified /\ ~isDevelopmentMode(e)
            THEN [env |-> showNotification(e, "warning"),
                  auth |-> auth_signOut(a1), outcome |-> "unverified"]
            ELSE IF doc # NoDoc
            THEN [env |-> showNotification(
                              showDashboard([e EXCEPT !.js.currentUser =
                                                 ProfileOf(uid, doc),
                                                      !.js.sharedArrays = {}]),
                              "success"),
                  auth |-> a1, outcome |-> "signedIn"]
            ELSE [env |-> showNotification(e, "danger"),
                  auth |-> auth_signOut(a1), outcome |-> "noProfile"]

SubmitSignIn(c, uid, passwordOk) ==
    /\ Ready(c)
    /\ Len(auth[c].events) + 2 <= MaxAuthEvents
    /\ LET r == submitSignIn(Env(c), auth[c], uid,
                    passwordOk /\ accounts[uid] # "none",
                    accounts[uid] = "verified", userDocs[uid])
       IN /\ Commit(c, r.env)
          /\ auth' = [auth EXCEPT ![c] = r.auth]
          /\ Done("submitSignIn", c, r.outcome)
    /\ UNCHANGED <<accounts, userDocs, postDocs, inflight, passwordCheck>>

\* signOut whose catch block only reports the error
signOutReportsOnly(e, a, backendFails) ==
    IF backendFails
    THEN [env |-> showNotification(e, "danger"), auth |-> a]
    ELSE [env |-> showNotification(
                      showLanding(updateNavbarForSignedOutUser(
                          [e EXCEPT !.js.currentUser = Null, !.js.sharedArrays = {}])),
                      "info"),
          auth |-> auth_signOut(a)]

signOut(e, a, backendFails) ==
    IF backendFails
    THEN [env |-> showLanding([e EXCEPT !.js.currentUser = Null, !.js.sharedArrays = {}]),
          auth |-> a]
    ELSE [env |-> showNotification(
                      showLanding(updateNavbarForSignedOutUser(
                          [e EXCEPT !.js.currentUser = Null, !.js.sharedArrays = {}])),
                      "info"),
          auth |-> auth_signOut(a)]

SignOut(c, backendFails) ==
    /\ Ready(c)
    /\ Len(auth[c].events) + 1 <= MaxAuthEvents
    /\ LET r == signOut(Env(c), auth[c], backendFails)
       IN /\ Commit(c, r.env)
          /\ auth' = [auth EXCEPT ![c] = r.auth]
    /\ Done("signOut", c, IF backendFails THEN "threw" ELSE "ok")
    /\ UNCHANGED <<accounts, userDocs, postDocs, inflight, passwordCheck>>

\* setTimeout(() => { isRestoringNavigationState = false }, 100)
RestoreTimerFires(c) ==
    /\ js[c].restoreTimer
    /\ js' = [js EXCEPT ![c].restoreTimer = FALSE,
                        ![c].isRestoringNavigationState = FALSE]
    /\ Done("restoreTimer", c, "ok")
    /\ UNCHANGED <<localStorage, location, auth, accounts, userDocs, postDocs,
                   inflight, passwordCheck>>

ShowProfile(c, userId) ==
    /\ Ready(c)
    /\ js[c].currentUser # Null
    /\ Commit(c, showProfile(Env(c), userId))
    /\ Done("showProfile", c, "ok")
    /\ UNCHANGED <<auth, accounts, userDocs, postDocs, inflight, passwordCheck>>

\* the user follows the link of the verification email
VerifyEmail(uid) ==
    /\ accounts[uid] = "unverified"
    /\ accounts' = [accounts EXCEPT ![uid] = "verified"]
    /\ Done("verifyEmail", "c1", "ok")
    /\ UNCHANGED <<js, localStorage, location, auth, userDocs, postDocs, inflight, passwordCheck>>

(***************************************************************************)
(* Sign-up and profile edit                                                *)
(***************************************************************************)
LowerChars == {"a", "b"}
UpperChars == {"A", "B"}
DigitChars == {"1", "2"}
SpecialChars == {"@", "$", "!", "%", "*", "?", "&"}

HasChar(password, class) == \E i \in 1..Len(password) : password[i] \in class

MinLength == 8

\* the first declaration (script.js:528)
validatePassword_528(password) ==
    /\ Len(password) >= MinLength
    /\ HasChar(password, UpperChars)
    /\ HasChar(password, LowerChars)
    /\ HasChar(password, DigitChars)

\* the declaration that runs (script.js:1548):
\* /^(?=.*[a-z])(?=.*[A-Z])(?=.*\d)[A-Za-z\d@$!%*?&]{8,}$/
validatePassword(password) ==
    /\ password # <<>>
    /\ HasChar(password, LowerChars)
    /\ HasChar(password, UpperChars)
    /\ HasChar(password, DigitChars)
    /\ \A i \in 1..Len(password) :
           password[i] \in LowerChars \cup UpperChars \cup DigitChars
                           \cup SpecialChars
    /\ Len(password) >= MinLength

IndexOf(seq, x) ==
    IF \E i \in 1..Len(seq) : seq[i] = x
    THEN CHOOSE i \in 1..Len(seq) : seq[i] = x /\ \A j \in 1..(i - 1) : seq[j] # x
    ELSE 0

Splice(seq, i) == SubSeq(seq, 1, i - 1) \o SubSeq(seq, i + 1, Len(seq))

toggleInterest(e, interest) ==
    LET index == IndexOf(e.js.selectedInterests, interest)
    IN IF index > 0
       THEN [e EXCEPT !.js.selectedInterests = Splice(@, index)]
       ELSE [e EXCEPT !.js.selectedInterests = Append(@, interest)]

\* db.collection('users').where('username', '==', name).get()
usernameQuery(docs, name) ==
    {u \in Uids : docs[u] # NoDoc /\ docs[u].username = name}

\* submitSignUp whose interest check is "length < 7"
submitSignUpOffByOne(e, form, docs, queryFails) ==
    IF ~form.filled
    THEN [env |-> showNotification(e, "danger"), outcome |-> "missingFields",
          calls |-> <<>>]
    ELSE IF Len(e.js.selectedInterests) < MinInterests - 1
    THEN [env |-> e, outcome |-> "tooFewInterests", calls |-> <<>>]
    ELSE IF ~validatePassword(form.password)
    THEN [env |-> showNotification(e, "danger"), outcome |-> "weakPassword",
          calls |-> <<>>]
    ELSE IF queryFails
    THEN [env |-> showNotification(e, "danger"), outcome |-> "queryError",
          calls |-> <<"query">>]
    ELSE IF usernameQuery(docs, toLowerCase(form.username)) # {}
    THEN [env |-> showNotification(e, "danger"),
          outcome |-> "duplicateUsername", calls |-> <<"query">>]
    ELSE [env |-> e, outcome |-> "awaiting", calls |-> <<"query">>]

\* submitSignUp that queries the username as typed
submitSignUpRawQuery(e, form, docs, queryFails) ==
    IF ~form.filled
    THEN [env |-> showNotification(e, "danger"), outcome |-> "missingFields",
          calls |-> <<>>]
    ELSE IF Len(e.js.selectedInterests) < MinInterests
    THEN [env |-> e, outcome |-> "tooFewInterests", calls |-> <<>>]
    ELSE IF ~validatePassword(form.password)
    THEN [env |-> showNotification(e, "danger"), outcome |-> "weakPassword",
          calls |-> <<>>]
    ELSE IF queryFails
    THEN [env |-> showNotification(e, "danger"), outcome |-> "queryError",
          calls |-> <<"query">>]
    ELSE IF usernameQuery(docs, form.username) # {}
    THEN [env |-> showNotification(e, "danger"),
          outcome |-> "duplicateUsername", calls |-> <<"query">>]
    ELSE [env |-> e, outcome |-> "awaiting", calls |-> <<"query">>]

\* submitSignUp up to the answer of the username query
submitSignUp(e, form, docs, queryFails) ==
    IF ~form.filled
    THEN [env |-> showNotification(e, "danger"), outcome |-> "missingFields",
          calls |-> <<>>]
    ELSE IF Len(e.js.selectedInterests) < MinInterests
    THEN [env |-> e, outcome |-> "tooFewInterests", calls |-> <<>>]
    ELSE IF ~validatePassword(form.password)
    THEN [env |-> showNotification(e, "danger"), outcome |-> "weakPassword",
          calls |-> <<>>]
    ELSE IF queryFails
    THEN [env |-> showNotification(e, "danger"), outcome |-> "queryError",
          calls |-> <<"query">>]
    ELSE IF usernameQuery(docs, toLowerCase(form.username)) # {}
    THEN [env |-> showNotification(e, "danger"),
          outcome |-> "duplicateUsername", calls |-> <<"query">>]
    ELSE [env |-> e, outcome |-> "awaiting", calls |-> <<"query">>]

\* submitSignUp from createUserWithEmailAndPassword to its end
submitSignUpCreate(e, a, su, accts, docs, verifyFails, setFails) ==
    LET uid == UidOfEmail(su.email)
        created == [accts EXCEPT ![uid] = "unverified"]
        a1 == auth_signIn(a, uid)
        mail == IF verifyFails THEN showNotification(e, "warning") ELSE e
    IN IF accts[uid] # "none"
       THEN [env |-> showNotification(e, "danger"), auth |-> a,
             accounts |-> accts, userDocs |-> docs,
             outcome |-> "createError", calls |-> <<"createUser">>]
       ELSE IF setFails
       THEN [env |-> showNotification(mail, "danger"), auth |-> a1,
             accounts |-> created, userDocs |-> docs,
             outcome |-> "setError",
             calls |-> <<"createUser", "sendEmailVerification", "set">>]
       ELSE [env |-> showNotification(
                         [mail EXCEPT !.js.selectedInterests = <<>>], "success"),
             auth |-> auth_signOut(a1),
             accounts |-> created,
             userDocs |-> [docs EXCEPT ![uid] =
                              [username |-> toLowerCase(su.username),
                               email |-> su.email,
                               interests |-> e.js.selectedInterests,
                               friends |-> Arr(<<>>),
                               friendRequests |-> Arr(<<>>),
                               messages |-> Arr(<<>>)]],
             outcome |-> "created",
             calls |-> <<"createUser", "sendEmailVerification", "set",
                         "signOut">>]

editProfile(e) ==
    IF e.js.currentUser = Null THEN e
    ELSE [e EXCEPT !.js.selectedInterests = e.js.currentUser.interests]

IsCurrentUser(u, cu) ==
    \/ strictEq(u.id, cu.id)
    \/ strictEq(u.uid, cu.uid)
    \/ (truthy(cu.uid) /\ strictEq(u.id, cu.uid))
    \/ (truthy(cu.id) /\ strictEq(u.uid, cu.id))

\* users.findIndex(u => u.id === currentUser.id), 0 when there is none
FindIndexById(list, id) ==
    LET hits == {i \in 1..Len(list) : strictEq(list[i].id, id)}
    IN IF hits = {} THEN 0 ELSE CHOOSE i \in hits : \A j \in hits : i <= j

\* submitEditProfile without a new image
submitEditProfile(e, form, docs, updateFails) ==
    LET cu == e.js.currentUser
        existingUser ==
            FindUser(e.js.users,
                LAMBDA u : ~IsCurrentUser(u, cu)
                           /\ (toLowerCase(u.username) = toLowerCase(form.username)
                               \/ u.email = form.email))
        edited == NormalizeId([cu EXCEPT !.username = form.username,
                                         !.email = form.email,
                                         !.interests = e.js.selectedInterests])
        userIndex == FindIndexById(e.js.users, edited.id)
        e1 == [e EXCEPT !.js.currentUser = edited,
                        !.js.users = IF userIndex > 0
                                     THEN [@ EXCEPT ![userIndex] = edited]
                                     ELSE @,
                        !.js.sharedArrays = IF userIndex > 0
                                            THEN ArraysOf(edited) ELSE @]
        e2 == saveDataToStorage(e1)
        remote == truthy(edited.uid)
        stored == remote /\ ~updateFails /\ docs[edited.uid.v] # NoDoc
        e3 == updateNavbarForSignedInUser(e2)
        e4 == showNotification(e3, "success")
        e5 == IF e4.js.currentPage = "dashboard" THEN showDashboard(e4)
              ELSE IF e4.js.currentPage = "profile" THEN showProfile(e4, Current)
              ELSE e4
        e6 == IF remote /\ ~stored THEN showNotification(e5, "warning") ELSE e5
    IN IF cu = Null
       THEN [env |-> e, userDocs |-> docs, outcome |-> "notSignedIn"]
       ELSE IF ~form.filled
       THEN [env |-> e, userDocs |-> docs, outcome |-> "missingFields"]
       ELSE IF Len(e.js.selectedInterests) < MinInterests
       THEN [env |-> e, userDocs |-> docs, outcome |-> "tooFewInterests"]
       ELSE IF existingUser # Null
       THEN [env |-> e, userDocs |-> docs, outcome |-> "taken"]
       ELSE IF form.changePassword
       THEN [env |-> e, userDocs |-> docs, outcome |-> "passwordRejected"]
       ELSE [env |-> e6,
             userDocs |-> IF stored
                          THEN [docs EXCEPT ![edited.uid.v].username = form.username,
                                            ![edited.uid.v].email = form.email,
                                            ![edited.uid.v].interests =
                                                e.js.selectedInterests]
                          ELSE docs,
             outcome |-> IF remote /\ ~stored THEN "savedLocally" ELSE "saved"]

(***************************************************************************)
(* Friend requests.  currentUser and its entry in users are two objects;   *)
(* sharedArrays names the arrays that both of them hold, so that a push    *)
(* through one of them is seen through the other.                          *)
(***************************************************************************)
Includes(list, x) == \E i \in 1..Len(list) : strictEq(list[i], x)

Filter(list, x) == SelectSeq(list, LAMBDA id : ~strictEq(id, x))

\* if (!currentUser[k]) currentUser[k] = []
InitCurrent(e, k) ==
    IF IsArray(e.js.currentUser[k]) THEN e
    ELSE [e EXCEPT !.js.currentUser[k] = Arr(<<>>)]

\* if (!users[i][k]) users[i][k] = []
InitEntry(e, i, k) ==
    IF IsArray(e.js.users[i][k]) THEN e
    ELSE [e EXCEPT !.js.users[i][k] = Arr(<<>>)]

\* the entry of users that holds the arrays of currentUser, 0 when none does
SharingEntry(e, k) ==
    IF k \in e.js.sharedArrays
    THEN FindIndexById(e.js.users, e.js.currentUser.id)
    ELSE 0

\* currentUser[k].push(x)
PushCurrent(e, k, x) ==
    LET i == SharingEntry(e, k)
        pushed == [e EXCEPT !.js.currentUser[k] = Arr(Append(@.v, x))]
    IN IF i > 0
       THEN [pushed EXCEPT !.js.users[i][k] = Arr(Append(@.v, x))]
       ELSE pushed

\* users[i][k].push(x)
PushEntry(e, i, k, x) ==
    LET pushed == [e EXCEPT !.js.users[i][k] = Arr(Append(@.v, x))]
    IN IF i = SharingEntry(e, k)
       THEN [pushed EXCEPT !.js.currentUser[k] = Arr(Append(@.v, x))]
       ELSE pushed

\* currentUser.friendRequests = currentUser.friendRequests.filter(...)
FilterRequests(e, requesterId) ==
    [e EXCEPT !.js.currentUser.friendRequests = Arr(Filter(@.v, requesterId)),
              !.js.sharedArrays = @ \ {"friendRequests"}]

\* sendFriendRequest without the check for a request sent before
sendFriendRequestAgain(e, targetUserId) ==
    LET i == FindIndexById(e.js.users, targetUserId)
        Send(e1) ==
            IF Includes(e1.js.currentUser.friends.v, targetUserId)
            THEN [env |-> showNotification(e1, "info"),
                  outcome |-> "alreadyFriends"]
            ELSE [env |-> showNotification(
                              saveDataToStorage(
                                  PushEntry(e1, i, "friendRequests",
                                            e1.js.currentUser.id)),
                              "success"),
                  outcome |-> "sent"]
    IN IF e.js.currentUser = Null
       THEN [env |-> showNotification(e, "info"), outcome |-> "notSignedIn"]
       ELSE IF i = 0
       THEN [env |-> e, outcome |-> "notFound"]
       ELSE Send(InitEntry(InitCurrent(e, "friends"), i, "friendRequests"))

sendFriendRequest(e, targetUserId) ==
    LET i == FindIndexById(e.js.users, targetUserId)
        Send(e1) ==
            IF Includes(e1.js.currentUser.friends.v, targetUserId)
            THEN [env |-> showNotification(e1, "info"),
                  outcome |-> "alreadyFriends"]
            ELSE IF Includes(e1.js.users[i].friendRequests.v,
                             e1.js.currentUser.id)
            THEN [env |-> showNotification(e1, "info"),
                  outcome |-> "alreadySent"]
            ELSE [env |-> showNotification(
                              saveDataToStorage(
                                  PushEntry(e1, i, "friendRequests",
                                            e1.js.currentUser.id)),
                              "success"),
                  outcome |-> "sent"]
    IN IF e.js.currentUser = Null
       THEN [env |-> showNotification(e, "info"), outcome |-> "notSignedIn"]
       ELSE IF i = 0
       THEN [env |-> e, outcome |-> "notFound"]
       ELSE Send(InitEntry(InitCurrent(e, "friends"), i, "friendRequests"))

acceptFriendRequest(e, requesterId) ==
    LET Requester(e1) ==
            LET i == FindIndexById(e1.js.users, requesterId)
            IN IF i > 0
               THEN PushEntry(InitEntry(e1, i, "friends"), i, "friends",
                              e1.js.currentUser.id)
               ELSE e1
        Accepted(e1) ==
            showNotification(
                saveDataToStorage(
                    FilterRequests(InitCurrent(e1, "friendRequests"),
                                   requesterId)),
                "success")
    IN IF e.js.currentUser = Null
       THEN [env |-> showNotification(e, "danger"), outcome |-> "notSignedIn"]
       ELSE [env |-> Accepted(Requester(
                         PushCurrent(InitCurrent(e, "friends"), "friends",
                                     requesterId))),
             outcome |-> "accepted"]

declineFriendRequest(e, requesterId) ==
    IF e.js.currentUser = Null
    THEN [env |-> showNotification(e, "danger"), outcome |-> "notSignedIn"]
    ELSE [env |-> showNotification(
                      saveDataToStorage(
                          FilterRequests(InitCurrent(e, "friendRequests"),
                                         requesterId)),
                      "info"),
          outcome |-> "declined"]

(***************************************************************************)
(* Messages.  messages maps a conversation id to the array of its          *)
(* messages; a message keeps senderId, receiverId and read.                *)
(***************************************************************************)
\* Number(id) is a number, not NaN
IsNumeric(id) == id.v \in {"1", "2", "3", "9"}
ToNumber(id) ==
    CASE id.v = "1" -> 1
      [] id.v = "2" -> 2
      [] id.v = "3" -> 3
      [] id.v = "9" -> 9

\* the strings of the ids of the model in the order of their code units
CodeUnitOrder == <<"1", "2", "3", "9", "u1", "u2">>
CodeUnitRank(s) == CHOOSE i \in 1..Len(CodeUnitOrder) : CodeUnitOrder[i] = s

\* a < b on ids: two strings by code units, anything else as numbers
lessThan(a, b) ==
    IF a.t = "string" /\ b.t = "string"
    THEN CodeUnitRank(a.v) < CodeUnitRank(b.v)
    ELSE /\ IsNumeric(a)
         /\ IsNumeric(b)
         /\ ToNumber(a) < ToNumber(b)

\* `${a}_${b}`: the string forms of the two ids
ConversationKey(a, b) == <<a.v, b.v>>

conversationId(currentUserId, contactId) ==
    IF lessThan(currentUserId, contactId)
    THEN ConversationKey(currentUserId, contactId)
    ELSE ConversationKey(contactId, currentUserId)

\* messages[conversationId] || []
ConversationOf(msgs, cid) == IF cid \in DOMAIN msgs THEN msgs[cid] ELSE <<>>

\* messages with messages[cid] = conversation
WithConversation(msgs, cid, conversation) ==
    [k \in DOMAIN msgs \cup {cid} |->
        IF k = cid THEN conversation ELSE msgs[k]]

\* conversation.forEach(msg => { if (msg.senderId === id) msg.read = true })
\* for the ids of senders
MarkRead(e, cid, senders) ==
    IF cid \notin DOMAIN e.js.messages THEN e
    ELSE [e EXCEPT !.js.messages[cid] =
              [i \in 1..Len(@) |->
                  IF \E id \in senders : strictEq(@[i].senderId, id)
                  THEN [@[i] EXCEPT !.read = TRUE]
                  ELSE @[i]]]

\* openMessageThread marking every message of the conversation
openMessageThreadMarksAll(e, contactId) ==
    IF e.js.currentUser = Null
    THEN [env |-> showNotification(e, "info"), outcome |-> "notSignedIn"]
    ELSE IF FindIndexById(e.js.users, contactId) = 0
    THEN [env |-> e, outcome |-> "notFound"]
    ELSE [env |-> saveDataToStorage(
                      MarkRead(e, conversationId(e.js.currentUser.id, contactId),
                               {contactId, e.js.currentUser.id})),
          outcome |-> "opened"]

openMessageThread(e, contactId) ==
    IF e.js.currentUser = Null
    THEN [env |-> showNotification(e, "info"), outcome |-> "notSignedIn"]
    ELSE IF FindIndexById(e.js.users, contactId) = 0
    THEN [env |-> e, outcome |-> "notFound"]
    ELSE [env |-> saveDataToStorage(
                      MarkRead(e, conversationId(e.js.currentUser.id, contactId),
                               {contactId})),
          outcome |-> "opened"]

getUnreadMessagesCount(e) ==
    IF e.js.currentUser = Null \/ ~IsArray(e.js.currentUser.messages) THEN 0
    ELSE LET contacts == e.js.currentUser.messages.v
             Unread(n) ==
                 LET conversation ==
                         ConversationOf(e.js.messages,
                             conversationId(e.js.currentUser.id, contacts[n]))
                 IN Cardinality({i \in 1..Len(conversation) :
                        /\ strictEq(conversation[i].senderId, contacts[n])
                        /\ ~conversation[i].read})
             Sum[n \in 0..Len(contacts)] ==
                 IF n = 0 THEN 0 ELSE Sum[n - 1] + Unread(n)
         IN Sum[Len(contacts)]

\* the contact lists of sendMessage: currentUser.messages, contact.messages
AddContacts(e, contactId) ==
    LET mine == InitCurrent(e, "messages")
        listed == IF Includes(mine.js.currentUser.messages.v, contactId)
                  THEN mine
                  ELSE PushCurrent(mine, "messages", contactId)
        i == FindIndexById(listed.js.users, contactId)
        theirs == IF i = 0 THEN listed ELSE InitEntry(listed, i, "messages")
    IN IF i = 0 \/ Includes(theirs.js.users[i].messages.v,
                            theirs.js.currentUser.id)
       THEN theirs
       ELSE PushEntry(theirs, i, "messages", theirs.js.currentUser.id)

sendMessage(e, contactId, message) ==
    IF e.js.currentUser = Null
    THEN [env |-> showNotification(e, "info"), outcome |-> "notSignedIn"]
    ELSE IF message = ""
    THEN [env |-> e, outcome |-> "empty"]
    ELSE LET cid == conversationId(e.js.currentUser.id, contactId)
             newMessage == [senderId |-> e.js.currentUser.id,
                            receiverId |-> contactId,
                            read |-> FALSE]
             pushed == [e EXCEPT !.js.messages =
                           WithConversation(@, cid,
                               Append(ConversationOf(@, cid), newMessage))]
             saved == saveDataToStorage(AddContacts(pushed, contactId))
         IN [env |-> showNotification(
                         openMessageThread(saved, contactId).env, "success"),
             outcome |-> "sent"]

(***************************************************************************)
(* Posts.  A handler returns the environment it leaves, the posts          *)
(* collection, how it ended, and the backend calls it made in order; a     *)
(* call the backend rejected is logged with the suffix ".rejected".        *)
(* loadPostsFeed catches its own errors and only rewrites the feed element.*)
(***************************************************************************)
PostIds == {"p1"}

NoPosts == [p \in PostIds |-> NoDoc]

NewPost(uid) ==
    [exists |-> TRUE, authorId |-> uid, likes |-> <<>>, comments |-> 0,
     shares |-> 0, edited |-> FALSE]

\* Firestore rejects an update() of a document that does not exist
updateRejected(docs, postId, fails) == fails \/ docs[postId] = NoDoc

\* publishPost that calls add() again after a rejected add()
publishPostRetry(e, docs, hasContent, newId, addFails) ==
    LET cu == e.js.currentUser
    IN IF cu = Null
       THEN [env |-> e, postDocs |-> docs, outcome |-> "signInModal",
             calls |-> <<>>]
       ELSE IF ~hasContent
       THEN [env |-> showNotification(e, "warning"), postDocs |-> docs,
             outcome |-> "empty", calls |-> <<>>]
       ELSE IF addFails \/ ~truthy(cu.uid)
       THEN [env |-> showNotification(e, "danger"), postDocs |-> docs,
             outcome |-> "failed", calls |-> <<"add.rejected", "add.rejected">>]
       ELSE [env |-> showNotification(e, "success"),
             postDocs |-> [docs EXCEPT ![newId] = NewPost(cu.uid.v)],
             outcome |-> "ok", calls |-> <<"add", "loadPostsFeed">>]

publishPost(e, docs, hasContent, newId, addFails) ==
    LET cu == e.js.currentUser
    IN IF cu = Null
       THEN [env |-> e, postDocs |-> docs, outcome |-> "signInModal",
             calls |-> <<>>]
       ELSE IF ~hasContent
       THEN [env |-> showNotification(e, "warning"), postDocs |-> docs,
             outcome |-> "empty", calls |-> <<>>]
       ELSE IF addFails \/ ~truthy(cu.uid)
       THEN [env |-> showNotification(e, "danger"), postDocs |-> docs,
             outcome |-> "failed", calls |-> <<"add.rejected">>]
       ELSE [env |-> showNotification(e, "success"),
             postDocs |-> [docs EXCEPT ![newId] = NewPost(cu.uid.v)],
             outcome |-> "ok", calls |-> <<"add", "loadPostsFeed">>]

\* toggleLike up to the answer of postRef.get()
toggleLikeGet(e, docs, postId, getFails) ==
    IF e.js.currentUser = Null
    THEN [env |-> e, outcome |-> "signInModal", likes |-> <<>>, calls |-> <<>>]
    ELSE IF getFails
    THEN [env |-> showNotification(e, "danger"), outcome |-> "failed",
          likes |-> <<>>, calls |-> <<"get.rejected">>]
    ELSE IF docs[postId] = NoDoc
    THEN [env |-> showNotification(e, "error"), outcome |-> "notFound",
          likes |-> <<>>, calls |-> <<"get">>]
    ELSE [env |-> e, outcome |-> "read", likes |-> docs[postId].likes,
          calls |-> <<"get">>]

\* toggleLike that pushes the uid without looking for it in the likes
toggleLikeUpdateAlwaysPush(e, docs, tl, updateFails) ==
    LET cu == e.js.currentUser
        uid == cu.uid.v
        likes == Append(tl.likes, uid)
    IN IF cu = Null \/ ~truthy(cu.uid)
       THEN [env |-> showNotification(e, "danger"), postDocs |-> docs,
             outcome |-> "typeError", calls |-> <<"get">>]
       ELSE IF updateRejected(docs, tl.postId, updateFails)
       THEN [env |-> showNotification(e, "danger"), postDocs |-> docs,
             outcome |-> "failed", calls |-> <<"get", "update.rejected">>]
       ELSE [env |-> e,
             postDocs |-> [docs EXCEPT ![tl.postId].likes = likes],
             outcome |-> "ok", calls |-> <<"get", "update">>]

\* toggleLike from the answer of postRef.get() on
toggleLikeUpdate(e, docs, tl, updateFails) ==
    LET cu == e.js.currentUser
        uid == cu.uid.v
        userIndex == IndexOf(tl.likes, uid)
        likes == IF userIndex > 0 THEN Splice(tl.likes, userIndex)
                 ELSE Append(tl.likes, uid)
    IN IF cu = Null \/ ~truthy(cu.uid)
       THEN [env |-> showNotification(e, "danger"), postDocs |-> docs,
             outcome |-> "typeError", calls |-> <<"get">>]
       ELSE IF updateRejected(docs, tl.postId, updateFails)
       THEN [env |-> showNotification(e, "danger"), postDocs |-> docs,
             outcome |-> "failed", calls |-> <<"get", "update.rejected">>]
       ELSE [env |-> e,
             postDocs |-> [docs EXCEPT ![tl.postId].likes = likes],
             outcome |-> "ok", calls |-> <<"get", "update">>]

handleCommentSubmit(e, docs, postId, enterWithText, updateFails) ==
    LET cu == e.js.currentUser
    IN IF ~enterWithText
       THEN [env |-> e, postDocs |-> docs, outcome |-> "ignored",
             calls |-> <<>>]
       ELSE IF cu = Null
       THEN [env |-> e, postDocs |-> docs, outcome |-> "signInModal",
             calls |-> <<>>]
       ELSE IF updateRejected(docs, postId, updateFails) \/ ~truthy(cu.uid)
       THEN [env |-> showNotification(e, "danger"), postDocs |-> docs,
             outcome |-> "failed", calls |-> <<"update.rejected">>]
       ELSE [env |-> e,
             postDocs |-> [docs EXCEPT ![postId].comments = @ + 1],
             outcome |-> "ok", calls |-> <<"update", "loadPostsFeed">>]

sharePost(e, docs, postId, updateFails) ==
    IF e.js.currentUser = Null
    THEN [env |-> e, postDocs |-> docs, outcome |-> "signInModal",
          calls |-> <<>>]
    ELSE IF updateRejected(docs, postId, updateFails)
    THEN [env |-> showNotification(e, "danger"), postDocs |-> docs,
          outcome |-> "failed", calls |-> <<"update.rejected">>]
    ELSE [env |-> showNotification(e, "success"),
          postDocs |-> [docs EXCEPT ![postId].shares = @ + 1],
          outcome |-> "ok", calls |-> <<"update">>]

editPost(e, docs, postId, getFails) ==
    LET cu == e.js.currentUser
    IN IF getFails
       THEN [env |-> showNotification(e, "danger"), outcome |-> "failed",
             calls |-> <<"get.rejected">>]
       ELSE IF docs[postId] = NoDoc
       THEN [env |-> showNotification(e, "error"), outcome |-> "notFound",
             calls |-> <<"get">>]
       ELSE IF cu = Null
       THEN [env |-> showNotification(e, "danger"), outcome |-> "typeError",
             calls |-> <<"get">>]
       ELSE IF ~strictEq(Str(docs[postId].authorId), cu.uid)
       THEN [env |-> showNotification(e, "warning"), outcome |-> "notAuthor",
             calls |-> <<"get">>]
       ELSE [env |-> [e EXCEPT !.js.currentEditingPostId = Str(postId)],
             outcome |-> "editing", calls |-> <<"get">>]

saveEditPost(e, docs, hasContent, updateFails) ==
    LET postId == e.js.currentEditingPostId
    IN IF ~truthy(postId)
       THEN [env |-> e, postDocs |-> docs, outcome |-> "ignored",
             calls |-> <<>>]
       ELSE IF ~hasContent
       THEN [env |-> showNotification(e, "warning"), postDocs |-> docs,
             outcome |-> "empty", calls |-> <<>>]
       ELSE IF updateRejected(docs, postId.v, updateFails)
       THEN [env |-> showNotification(e, "danger"), postDocs |-> docs,
             outcome |-> "failed", calls |-> <<"update.rejected">>]
       ELSE [env |-> [showNotification(e, "success")
                          EXCEPT !.js.currentEditingPostId = Null],
             postDocs |-> [docs EXCEPT ![postId.v].edited = TRUE],
             outcome |-> "ok", calls |-> <<"update", "loadPostsFeed">>]

confirmDeletePost(e, postId) ==
    [e EXCEPT !.js.currentDeletingPostId = Str(postId)]

executeDeletePost(e, docs, deleteFails) ==
    LET postId == e.js.currentDeletingPostId
    IN IF ~truthy(postId)
       THEN [env |-> e, postDocs |-> docs, outcome |-> "ignored",
             calls |-> <<>>]
       ELSE IF deleteFails
       THEN [env |-> showNotification(e, "danger"), postDocs |-> docs,
             outcome |-> "failed", calls |-> <<"delete.rejected">>]
       ELSE [env |-> [showNotification(e, "success")
                          EXCEPT !.js.currentDeletingPostId = Null],
             postDocs |-> [docs EXCEPT ![postId.v] = NoDoc],
             outcome |-> "ok", calls |-> <<"delete", "loadPostsFeed">>]

(***************************************************************************)
(* Spec: one browser, two registered accounts (one of them unverified)     *)
(***************************************************************************)
RegisteredDoc(uid) ==
    [username |-> IF uid = "u1" THEN "amy" ELSE "bob",
     email |-> EmailOf(uid),
     interests |-> FirstN(MinInterests)]


Init ==
    /\ js = [c \in Clients |-> InitialJs]
    /\ localStorage = [c \in Clients |-> EmptyStorage]
    /\ location = [c \in Clients |-> RootPath]
    /\ auth = [c \in Clients |-> [user |-> NoUser, events |-> <<NoUser>>]]
    /\ accounts = [u \in Uids |-> IF u = "u1" THEN "verified" ELSE "unverified"]
    /\ userDocs = [u \in Uids |-> RegisteredDoc(u)]
    /\ postDocs = NoPosts
    /\ inflight = [c \in Clients |-> Idle]
    /\ passwordCheck = NoPasswordCheck
    /\ last = [op |-> "none", client |-> "c1", outcome |-> "ok",
               calls |-> <<>>, form |-> NoForm,
               session |-> "none", stage |-> "none", afterSignOut |-> FALSE,
               navAtReload |-> [page |-> "none", userId |-> Null]]

ProfileTargets == {Current, Num("2"), Str("u1")}

Next ==
    \/ Reload("c1")
    \/ DOMContentLoaded("c1")
    \/ \E dbFails \in BOOLEAN : AuthStateChanged("c1", dbFails)
    \/ \E uid \in Uids, ok \in BOOLEAN : SubmitSignIn("c1", uid, ok)
    \/ \E fails \in BOOLEAN : SignOut("c1", fails)
    \/ RestoreTimerFires("c1")
    \/ \E t \in ProfileTargets : ShowProfile("c1", t)
    \/ \E uid \in Uids : VerifyEmail(uid)

Spec == Init /\ [][Next]_vars

(***************************************************************************)
(* SpecStore: two browsers signing up against one backend; the first one   *)
(* also signs in and edits its profile                                     *)
(***************************************************************************)
ClientEmail(c) == IF c = "c1" THEN EmailOf("u1") ELSE EmailOf("u2")

StrongPassword == <<"A", "a", "a", "a", "a", "a", "a", "1">>
PasswordSamples == {StrongPassword, <<"A", "a", "a", "a", "a", "a", "1">>}

\* the first browser tries every kind of form; the second one submits
\* complete forms only
SignUpForms(c) ==
    IF c = "c1"
    THEN [filled : BOOLEAN, username : FormUsernames,
          email : {ClientEmail(c)}, password : PasswordSamples]
    ELSE [filled : {TRUE}, username : FormUsernames,
          email : {ClientEmail(c)}, password : {StrongPassword}]

EditForms(c) ==
    [filled : BOOLEAN, username : FormUsernames, email : {ClientEmail(c)},
     changePassword : BOOLEAN]

\* the checkboxes the user still toggles; the ones before are ticked already
InterestChoices == MinInterests..NumInterests

ToggleInterest(c, i) ==
    /\ Ready(c)
    /\ Commit(c, toggleInterest(Env(c), i))
    /\ Done("toggleInterest", c, "ok")
    /\ UNCHANGED <<auth, accounts, userDocs, postDocs, inflight, passwordCheck>>

SubmitSignUp(c, form, queryFails) ==
    /\ Ready(c)
    /\ inflight[c].signUp.pc = "idle"
    /\ LET r == submitSignUp(Env(c), form, userDocs, queryFails)
       IN /\ Commit(c, r.env)
          /\ inflight' = [inflight EXCEPT ![c].signUp =
                IF r.outcome = "awaiting"
                THEN [pc |-> "awaiting", username |-> form.username,
                      email |-> form.email]
                ELSE Idle.signUp]
          /\ DoneWith("submitSignUp", c, r.outcome, r.calls,
                      [username |-> form.username])
    /\ UNCHANGED <<auth, accounts, userDocs, postDocs, passwordCheck>>

SignUpCreate(c, verifyFails, setFails) ==
    /\ inflight[c].signUp.pc = "awaiting"
    /\ Len(auth[c].events) + 2 <= MaxAuthEvents
    /\ LET r == submitSignUpCreate(Env(c), auth[c], inflight[c].signUp,
                                   accounts, userDocs, verifyFails, setFails)
       IN /\ Commit(c, r.env)
          /\ auth' = [auth EXCEPT ![c] = r.auth]
          /\ accounts' = r.accounts
          /\ userDocs' = r.userDocs
          /\ DoneWith("submitSignUp.create", c, r.outcome, r.calls,
                      [username |-> inflight[c].signUp.username])
    /\ inflight' = [inflight EXCEPT ![c].signUp = Idle.signUp]
    /\ UNCHANGED <<postDocs, passwordCheck>>

EditProfile(c) ==
    /\ Ready(c)
    /\ js[c].currentUser # Null
    /\ Commit(c, editProfile(Env(c)))
    /\ Done("editProfile", c, "ok")
    /\ UNCHANGED <<auth, accounts, userDocs, postDocs, inflight, passwordCheck>>

SubmitEditProfile(c, form, updateFails) ==
    /\ Ready(c)
    /\ LET r == submitEditProfile(Env(c), form, userDocs, updateFails)
       IN /\ Commit(c, r.env)
          /\ userDocs' = r.userDocs
          /\ DoneWith("submitEditProfile", c, r.outcome, <<>>,
                      [username |-> form.username])
    /\ UNCHANGED <<auth, accounts, postDocs, inflight, passwordCheck>>

\* a browser that has loaded the page for the first time
Loaded ==
    loadSampleData(initializeApp(
        [js |-> InitialJs, ls |-> EmptyStorage, path |-> RootPath]))

\* both pages are loaded; the first user has ticked seven interests, the
\* second one eight
InitStore ==
    /\ js = [c \in Clients |->
                [Loaded.js EXCEPT !.phase = "ready",
                                  !.selectedInterests =
                                      IF c = "c1" THEN FirstN(MinInterests - 1)
                                      ELSE FirstN(MinInterests)]]
    /\ localStorage = [c \in Clients |-> Loaded.ls]
    /\ location = [c \in Clients |-> Loaded.path]
    /\ auth = [c \in Clients |-> [user |-> NoUser, events |-> <<>>]]
    /\ accounts = [u \in Uids |-> "none"]
    /\ userDocs = [u \in Uids |-> NoDoc]
    /\ postDocs = NoPosts
    /\ inflight = [c \in Clients |-> Idle]
    /\ passwordCheck = NoPasswordCheck
    /\ last = [op |-> "none", client |-> "c1", outcome |-> "ok",
               calls |-> <<>>, form |-> NoForm,
               session |-> "none", stage |-> "none", afterSignOut |-> FALSE,
               navAtReload |-> [page |-> "none", userId |-> Null]]

NextStore ==
    \/ AuthStateChanged("c1", FALSE)
    \/ \E i \in InterestChoices : ToggleInterest("c1", i)
    \/ \E form \in SignUpForms("c1"), queryFails \in BOOLEAN :
           SubmitSignUp("c1", form, queryFails)
    \/ \E form \in SignUpForms("c2") : SubmitSignUp("c2", form, FALSE)
    \/ \E verifyFails, setFails \in BOOLEAN :
           SignUpCreate("c1", verifyFails, setFails)
    \/ SignUpCreate("c2", FALSE, FALSE)

SpecStore == InitStore /\ [][NextStore]_vars

(***************************************************************************)
(* SpecProfile: one browser signs up, verifies, signs in and edits         *)
(***************************************************************************)
NextProfile ==
    \/ AuthStateChanged("c1", FALSE)
    \/ ToggleInterest("c1", MinInterests)
    \/ \E form \in SignUpForms("c1") : SubmitSignUp("c1", form, FALSE)
    \/ \E setFails \in BOOLEAN : SignUpCreate("c1", FALSE, setFails)
    \/ VerifyEmail("u1")
    \/ SubmitSignIn("c1", "u1", TRUE)
    \/ EditProfile("c1")
    \/ \E form \in EditForms("c1"), updateFails \in BOOLEAN :
           SubmitEditProfile("c1", form, updateFails)

SpecProfile == InitStore /\ [][NextProfile]_vars

(***************************************************************************)
(* SpecPassword: every password up to MaxPwLen characters is typed into    *)
(* the sign-up form of a user who has ticked eight interests               *)
(***************************************************************************)
PwAlphabet == {"a", "A", "1", "#"}
PasswordInputs == UNION {[1..n -> PwAlphabet] : n \in 0..MaxPwLen}

ValidatePassword ==
    /\ passwordCheck.result = "none"
    /\ passwordCheck' = [passwordCheck EXCEPT !.result =
                            IF validatePassword(passwordCheck.input)
                            THEN "accepted" ELSE "rejected"]
    /\ Done("validatePassword", "c1", "ok")
    /\ UNCHANGED <<js, localStorage, location, auth, accounts, userDocs,
                   postDocs, inflight>>

SubmitTypedPassword ==
    /\ passwordCheck.result # "none"
    /\ SubmitSignUp("c2", [filled |-> TRUE, username |-> "amy",
                           email |-> ClientEmail("c2"),
                           password |-> passwordCheck.input], FALSE)

InitPassword ==
    /\ js = [c \in Clients |->
                [Loaded.js EXCEPT !.phase = "ready",
                                  !.selectedInterests = FirstN(MinInterests)]]
    /\ localStorage = [c \in Clients |-> Loaded.ls]
    /\ location = [c \in Clients |-> Loaded.path]
    /\ auth = [c \in Clients |-> [user |-> NoUser, events |-> <<>>]]
    /\ accounts = [u \in Uids |-> "none"]
    /\ userDocs = [u \in Uids |-> NoDoc]
    /\ postDocs = NoPosts
    /\ inflight = [c \in Clients |-> Idle]
    /\ passwordCheck \in [input : PasswordInputs, result : {"none"}]
    /\ last = [op |-> "none", client |-> "c1", outcome |-> "ok",
               calls |-> <<>>, form |-> NoForm,
               session |-> "none", stage |-> "none", afterSignOut |-> FALSE,
               navAtReload |-> [page |-> "none", userId |-> Null]]

NextPassword == ValidatePassword \/ SubmitTypedPassword

SpecPassword == InitPassword /\ [][NextPassword]_vars

(***************************************************************************)
(* SpecPosts: a signed-in user publishes, likes, comments, shares, edits  *)
(* and deletes; the collection starts with a post of somebody else         *)
(***************************************************************************)
PostHandled(c, r, op) ==
    /\ Commit(c, r.env)
    /\ postDocs' = r.postDocs
    /\ DoneWith(op, c, r.outcome, r.calls, NoForm)
    /\ UNCHANGED <<auth, accounts, userDocs, inflight, passwordCheck>>

\* Firestore chooses the id of an added document
PublishPost(c, hasContent, addFails) ==
    /\ Ready(c)
    /\ \E newId \in PostIds :
          /\ postDocs[newId] = NoDoc
          /\ PostHandled(c, publishPost(Env(c), postDocs, hasContent, newId,
                                        addFails), "publishPost")

ToggleLikeGet(c, postId, getFails) ==
    /\ Ready(c)
    /\ inflight[c].toggleLike.pc = "idle"
    /\ LET r == toggleLikeGet(Env(c), postDocs, postId, getFails)
       IN /\ Commit(c, r.env)
          /\ inflight' = [inflight EXCEPT ![c].toggleLike =
                IF r.outcome = "read"
                THEN [pc |-> "read", postId |-> postId, likes |-> r.likes]
                ELSE Idle.toggleLike]
          /\ DoneWith("toggleLike", c, r.outcome, r.calls, NoForm)
    /\ UNCHANGED <<auth, accounts, userDocs, postDocs, passwordCheck>>

ToggleLikeUpdate(c, updateFails) ==
    /\ inflight[c].toggleLike.pc = "read"
    /\ LET r == toggleLikeUpdate(Env(c), postDocs, inflight[c].toggleLike,
                                 updateFails)
       IN /\ Commit(c, r.env)
          /\ postDocs' = r.postDocs
          /\ DoneWith("toggleLike.update", c, r.outcome, r.calls, NoForm)
    /\ inflight' = [inflight EXCEPT ![c].toggleLike = Idle.toggleLike]
    /\ UNCHANGED <<auth, accounts, userDocs, passwordCheck>>

HandleCommentSubmit(c, postId, enterWithText, updateFails) ==
    /\ Ready(c)
    /\ postDocs[postId] # NoDoc => postDocs[postId].comments < MaxComments
    /\ PostHandled(c, handleCommentSubmit(Env(c), postDocs, postId,
                                          enterWithText, updateFails),
                   "handleCommentSubmit")

SharePost(c, postId, updateFails) ==
    /\ Ready(c)
    /\ postDocs[postId] # NoDoc => postDocs[postId].shares < MaxShares
    /\ PostHandled(c, sharePost(Env(c), postDocs, postId, updateFails),
                   "sharePost")

EditPost(c, postId, getFails) ==
    /\ Ready(c)
    /\ LET r == editPost(Env(c), postDocs, postId, getFails)
       IN /\ Commit(c, r.env)
          /\ DoneWith("editPost", c, r.outcome, r.calls, NoForm)
    /\ UNCHANGED <<auth, accounts, userDocs, postDocs, inflight, passwordCheck>>

SaveEditPost(c, hasContent, updateFails) ==
    /\ Ready(c)
    /\ PostHandled(c, saveEditPost(Env(c), postDocs, hasContent, updateFails),
                   "saveEditPost")

ConfirmDeletePost(c, postId) ==
    /\ Ready(c)
    /\ Commit(c, confirmDeletePost(Env(c), postId))
    /\ Done("confirmDeletePost", c, "ok")
    /\ UNCHANGED <<auth, accounts, userDocs, postDocs, inflight, passwordCheck>>

ExecuteDeletePost(c, deleteFails) ==
    /\ Ready(c)
    /\ PostHandled(c, executeDeletePost(Env(c), postDocs, deleteFails),
                   "executeDeletePost")

ClientUid(c) == IF c = "c1" THEN "u1" ELSE "u2"

\* a browser whose listener has loaded the profile of a verified user
SignedIn(uid) ==
    onAuthStateChanged([Loaded EXCEPT !.js.phase = "ready"], uid, TRUE,
                       RegisteredDoc(uid), FALSE).env

InitPosts ==
    /\ js = [c \in Clients |-> SignedIn(ClientUid(c)).js]
    /\ localStorage = [c \in Clients |-> SignedIn(ClientUid(c)).ls]
    /\ location = [c \in Clients |-> SignedIn(ClientUid(c)).path]
    /\ auth = [c \in Clients |-> [user |-> ClientUid(c), events |-> <<>>]]
    /\ accounts = [u \in Uids |-> "verified"]
    /\ userDocs = [u \in Uids |-> RegisteredDoc(u)]
    /\ postDocs = [NoPosts EXCEPT !["p1"] = NewPost("u2")]
    /\ inflight = [c \in Clients |-> Idle]
    /\ passwordCheck = NoPasswordCheck
    /\ last = [op |-> "none", client |-> "c1", outcome |-> "ok",
               calls |-> <<>>, form |-> NoForm,
               session |-> "signedIn", stage |-> "none",
               afterSignOut |-> FALSE,
               navAtReload |-> [page |-> "none", userId |-> Null]]

NextPosts ==
    \/ \E hasContent, addFails \in BOOLEAN :
           PublishPost("c1", hasContent, addFails)
    \/ \E p \in PostIds, getFails \in BOOLEAN : ToggleLikeGet("c1", p, getFails)
    \/ \E updateFails \in BOOLEAN : ToggleLikeUpdate("c1", updateFails)
    \/ \E p \in PostIds, enterWithText, updateFails \in BOOLEAN :
           HandleCommentSubmit("c1", p, enterWithText, updateFails)
    \/ \E p \in PostIds, updateFails \in BOOLEAN : SharePost("c1", p, updateFails)
    \/ \E p \in PostIds, getFails \in BOOLEAN : EditPost("c1", p, getFails)
    \/ \E hasContent, updateFails \in BOOLEAN :
           SaveEditPost("c1", hasContent, updateFails)
    \/ \E p \in PostIds : ConfirmDeletePost("c1", p)
    \/ \E deleteFails \in BOOLEAN : ExecuteDeletePost("c1", deleteFails)

SpecPosts == InitPosts /\ [][NextPosts]_vars

(***************************************************************************)
(* SpecRouter: the router is handed every path, for a guest and for        *)
(* signed-in users, with and without the user lists that make a username   *)
(* route resolve                                                           *)
(***************************************************************************)
RoutePaths ==
    {<<>>, RootPath, Path("home"), <<"home">>, Path("dashboard"),
     <<"dashboard">>, Path("amy"), Path("alexj"), Path("ghost")}

RouterUsers ==
    {Null, NormalizeId(ProfileOf("u1", RegisteredDoc("u1"))), SampleUsers[1],
     [SampleUsers[2] EXCEPT !.username = "dashboard"]}

RouterUserLists ==
    {<<>>, SampleUsers,
     Append(SampleUsers, NormalizeId(ProfileOf("u1", RegisteredDoc("u1"))))}

\* the popstate listener and router.init: handleRoute(path)
Popstate(c, path) ==
    /\ Ready(c)
    /\ LET Handled(r) ==
               /\ Commit(c, r.env)
               /\ Done("handleRoute", c,
                       IF r.fuel < MaxRedirects THEN "redirected" ELSE "shown")
       IN Handled(FollowRoute([Env(c) EXCEPT !.path = path], path,
                              MaxRedirects))
    /\ UNCHANGED <<auth, accounts, userDocs, postDocs, inflight, passwordCheck>>

InitRouter ==
    /\ \E cu \in RouterUsers, list \in RouterUserLists :
           js = [c \in Clients |->
                    [InitialJs EXCEPT !.phase = "ready", !.currentUser = cu,
                                      !.users = list]]
    /\ localStorage = [c \in Clients |-> EmptyStorage]
    /\ location \in [Clients -> {RootPath}]
    /\ auth = [c \in Clients |-> [user |-> NoUser, events |-> <<>>]]
    /\ accounts = [u \in Uids |-> "none"]
    /\ userDocs = [u \in Uids |-> NoDoc]
    /\ postDocs = NoPosts
    /\ inflight = [c \in Clients |-> Idle]
    /\ passwordCheck = NoPasswordCheck
    /\ last = [op |-> "none", client |-> "c1", outcome |-> "ok",
               calls |-> <<>>, form |-> NoForm,
               session |-> "none", stage |-> "none", afterSignOut |-> FALSE,
               navAtReload |-> [page |-> "none", userId |-> Null]]

NextRouter ==
    \/ \E path \in RoutePaths : Popstate("c1", path)
    \/ \E userId \in ProfileTargets : ShowProfile("c1", userId)

SpecRouter == InitRouter /\ [][NextRouter]_vars

(***************************************************************************)
(* SpecRecovery: the same browser, whose stored values may get damaged     *)
(***************************************************************************)
CorruptKey(c, k) ==
    /\ Ready(c)
    /\ localStorage[c][k] # Corrupt
    /\ localStorage' = [localStorage EXCEPT ![c][k] = Corrupt]
    /\ Done("corruptKey", c, "ok")
    /\ UNCHANGED <<js, location, auth, accounts, userDocs, postDocs, inflight, passwordCheck>>

NextRecovery ==
    \/ Reload("c1")
    \/ DOMContentLoaded("c1")
    \/ \E dbFails \in BOOLEAN : AuthStateChanged("c1", dbFails)
    \/ \E ok \in BOOLEAN : SubmitSignIn("c1", "u1", ok)
    \/ \E k \in PersistedKeys : CorruptKey("c1", k)

SpecRecovery == Init /\ [][NextRecovery]_vars

(***************************************************************************)
(* SpecSample: a signed-in user shares news as local posts; keys of the    *)
(* storage get damaged between page loads, so that a page can start with   *)
(* no users while truefew_posts still holds the user's posts               *)
(***************************************************************************)
ShareNewsAsPost(c) ==
    /\ Ready(c)
    /\ js[c].currentUser # Null
    /\ Len(js[c].posts) < MaxLocalPosts
    /\ Commit(c, shareNewsAsPost(Env(c)))
    /\ Done("shareNewsAsPost", c, "ok")
    /\ UNCHANGED <<auth, accounts, userDocs, postDocs, inflight, passwordCheck>>

NextSample ==
    \/ Reload("c1")
    \/ DOMContentLoaded("c1")
    \/ \E dbFails \in BOOLEAN : AuthStateChanged("c1", dbFails)
    \/ \E ok \in BOOLEAN : SubmitSignIn("c1", "u1", ok)
    \/ ShareNewsAsPost("c1")
    \/ \E k \in {"users", "posts"} : CorruptKey("c1", k)

SpecSample == Init /\ [][NextSample]_vars

(***************************************************************************)
(* SpecNavbar: the sessions of Spec, with window.updateNavbar called       *)
(* between the handlers and its body throwing or not                       *)
(***************************************************************************)
UpdateNavbar(c) ==
    /\ Ready(c)
    /\ js[c].currentUser # Null
    /\ Commit(c, updateNavbarEnter(Env(c)))
    /\ Done("updateNavbar", c,
            IF js[c].navbarUpdateInProgress THEN "skipped" ELSE "entered")
    /\ UNCHANGED <<auth, accounts, userDocs, postDocs, inflight, passwordCheck>>

NavbarTry(c, throws) ==
    /\ js[c].phase = "navbar.try"
    /\ Commit(c, updateNavbarTry(Env(c), throws))
    /\ Done("updateNavbarForSignedInUser", c, IF throws THEN "threw" ELSE "completed")
    /\ UNCHANGED <<auth, accounts, userDocs, postDocs, inflight, passwordCheck>>

NavbarCatch(c) ==
    /\ js[c].phase = "navbar.catch"
    /\ Commit(c, updateNavbarCatch(Env(c)))
    /\ Done("updateNavbarForSignedInUser", c, "caught")
    /\ UNCHANGED <<auth, accounts, userDocs, postDocs, inflight, passwordCheck>>

NavbarFinally(c) ==
    /\ js[c].phase = "navbar.finally"
    /\ Commit(c, updateNavbarFinally(Env(c)))
    /\ Done("updateNavbarForSignedInUser", c,
            IF last.outcome = "caught" THEN "returnedAfterThrow" ELSE "returned")
    /\ UNCHANGED <<auth, accounts, userDocs, postDocs, inflight, passwordCheck>>

NextNavbar ==
    \/ Reload("c1")
    \/ DOMContentLoaded("c1")
    \/ \E dbFails \in BOOLEAN : AuthStateChanged("c1", dbFails)
    \/ \E ok \in BOOLEAN : SubmitSignIn("c1", "u1", ok)
    \/ \E fails \in BOOLEAN : SignOut("c1", fails)
    \/ UpdateNavbar("c1")
    \/ \E throws \in BOOLEAN : NavbarTry("c1", throws)
    \/ NavbarCatch("c1")
    \/ NavbarFinally("c1")

SpecNavbar == Init /\ [][NextNavbar]_vars

(***************************************************************************)
(* SpecLikes: two signed-in browsers toggle their like on the same post;   *)
(* each read and each write is a step of its own                           *)
(***************************************************************************)
NextLikes ==
    \/ \E c \in Clients, p \in PostIds, getFails \in BOOLEAN :
           ToggleLikeGet(c, p, getFails)
    \/ \E c \in Clients, updateFails \in BOOLEAN : ToggleLikeUpdate(c, updateFails)

SpecLikes == InitPosts /\ [][NextLikes]_vars

(***************************************************************************)
(* SpecToggle: one signed-in browser is the only writer of the likes; the  *)
(* second browser is a guest.  The post is missing or carries likes left   *)
(* by earlier sessions.                                                    *)
(***************************************************************************)
InitialLikes == {<<>>, <<"u1">>, <<"u2">>, <<"u1", "u2">>, <<"u2", "u1">>}

Guest == [Loaded EXCEPT !.js.phase = "ready"]

InitToggle ==
    /\ js = [c \in Clients |-> IF c = "c1" THEN SignedIn("u1").js ELSE Guest.js]
    /\ localStorage =
           [c \in Clients |-> IF c = "c1" THEN SignedIn("u1").ls ELSE Guest.ls]
    /\ location =
           [c \in Clients |-> IF c = "c1" THEN SignedIn("u1").path ELSE Guest.path]
    /\ auth = [c \in Clients |->
                  [user |-> IF c = "c1" THEN "u1" ELSE NoUser, events |-> <<>>]]
    /\ accounts = [u \in Uids |-> "verified"]
    /\ userDocs = [u \in Uids |-> RegisteredDoc(u)]
    /\ \/ postDocs = NoPosts
       \/ \E likes \in InitialLikes :
              postDocs = [NoPosts EXCEPT !["p1"] =
                              [NewPost("u2") EXCEPT !.likes = likes]]
    /\ inflight = [c \in Clients |-> Idle]
    /\ passwordCheck = NoPasswordCheck
    /\ last = [op |-> "none", client |-> "c1", outcome |-> "ok",
               calls |-> <<>>, form |-> NoForm,
               session |-> "signedIn", stage |-> "none",
               afterSignOut |-> FALSE,
               navAtReload |-> [page |-> "none", userId |-> Null]]

NextToggle ==
    \/ \E c \in Clients, p \in PostIds, getFails \in BOOLEAN :
           ToggleLikeGet(c, p, getFails)
    \/ \E updateFails \in BOOLEAN : ToggleLikeUpdate("c1", updateFails)
    \/ \E p \in PostIds, updateFails \in BOOLEAN : SharePost("c1", p, updateFails)

SpecToggle == InitToggle /\ [][NextToggle]_vars

(***************************************************************************)
(* SpecFriends: the browser of user u1, whose Firebase session survives    *)
(* reloads.  The user document may carry pending requests of the sample    *)
(* users.  The user sends, accepts and declines requests between reloads.  *)
(***************************************************************************)
FriendIds == {Num("2"), Num("3")}
SendTargets == FriendIds \cup {Num("9")}
DocRequests == {<<>>, <<Num("3")>>, <<Num("2"), Num("3")>>}

\* the longest friends or friendRequests array of the page
LongestList(c) ==
    LET Lens == {Len(OrEmpty(js[c].users[i][k]).v) :
                     i \in 1..Len(js[c].users),
                     k \in {"friends", "friendRequests"}}
                \cup (IF js[c].currentUser = Null THEN {0}
                      ELSE {Len(OrEmpty(js[c].currentUser[k]).v) :
                                k \in {"friends", "friendRequests"}})
                \cup {0}
    IN CHOOSE n \in Lens : \A m \in Lens : m <= n

FriendHandled(c, r, op) ==
    /\ Commit(c, r.env)
    /\ Done(op, c, r.outcome)
    /\ UNCHANGED <<auth, accounts, userDocs, postDocs, inflight, passwordCheck>>

SendFriendRequest(c, targetUserId) ==
    /\ Ready(c)
    /\ LongestList(c) < MaxFriends
    /\ FriendHandled(c, sendFriendRequest(Env(c), targetUserId),
                     "sendFriendRequest")

AcceptFriendRequest(c, requesterId) ==
    /\ Ready(c)
    /\ LongestList(c) < MaxFriends
    /\ FriendHandled(c, acceptFriendRequest(Env(c), requesterId),
                     "acceptFriendRequest")

DeclineFriendRequest(c, requesterId) ==
    /\ Ready(c)
    /\ FriendHandled(c, declineFriendRequest(Env(c), requesterId),
                     "declineFriendRequest")

InitFriends ==
    /\ js = [c \in Clients |-> InitialJs]
    /\ localStorage = [c \in Clients |-> EmptyStorage]
    /\ location = [c \in Clients |-> RootPath]
    /\ auth = [c \in Clients |->
                  IF c = "c1" THEN [user |-> "u1", events |-> <<"u1">>]
                  ELSE [user |-> NoUser, events |-> <<NoUser>>]]
    /\ accounts = [u \in Uids |-> "verified"]
    /\ \E requests \in DocRequests :
           userDocs = [u \in Uids |->
                          [username |-> RegisteredDoc(u).username,
                           email |-> RegisteredDoc(u).email,
                           interests |-> RegisteredDoc(u).interests,
                           friends |-> Arr(<<>>),
                           friendRequests |-> Arr(requests),
                           messages |-> Arr(<<>>)]]
    /\ postDocs = NoPosts
    /\ inflight = [c \in Clients |-> Idle]
    /\ passwordCheck = NoPasswordCheck
    /\ last = [op |-> "none", client |-> "c1", outcome |-> "ok",
               calls |-> <<>>, form |-> NoForm,
               session |-> "none", stage |-> "none", afterSignOut |-> FALSE,
               navAtReload |-> [page |-> "none", userId |-> Null]]

NextFriends ==
    \/ Reload("c1")
    \/ DOMContentLoaded("c1")
    \/ \E dbFails \in BOOLEAN : AuthStateChanged("c1", dbFails)
    \/ \E t \in SendTargets : SendFriendRequest("c1", t)
    \/ \E r \in FriendIds : AcceptFriendRequest("c1", r)
    \/ \E r \in FriendIds : DeclineFriendRequest("c1", r)

SpecFriends == InitFriends /\ [][NextFriends]_vars

(***************************************************************************)
(* Message threads of one browser: u1 is signed in on c1, the stored       *)
(* messages hold threads between u1 and the sample users 2 and 3, and the  *)
(* profile document of u1 lists some of them as contacts.                  *)
(***************************************************************************)
MessageContacts == {Num("2"), Num("3")}
OpenTargets == MessageContacts \cup {Num("9")}
MessageTexts == {"", "hi"}
DocContacts == {<<>>, <<Num("2")>>, <<Num("2"), Num("3")>>}

Message(senderId, receiverId, read) ==
    [senderId |-> senderId, receiverId |-> receiverId, read |-> read]

\* the stored threads between the user and one contact
ThreadsWith(me, contact) ==
    {<<>>,
     <<Message(contact, me, FALSE)>>,
     <<Message(me, contact, FALSE), Message(contact, me, FALSE)>>,
     <<Message(contact, me, TRUE), Message(contact, me, FALSE)>>}

StoredMessages ==
    LET me == Str("u1")
        Key(contact) == conversationId(me, contact)
    IN {[k \in {Key(contact) : contact \in MessageContacts} |->
            IF k = Key(Num("2")) THEN t2 ELSE t3] :
        t2 \in ThreadsWith(me, Num("2")), t3 \in ThreadsWith(me, Num("3"))}

LongestConversation(c) ==
    LET Lens == {Len(js[c].messages[k]) : k \in DOMAIN js[c].messages}
                \cup {0}
    IN CHOOSE n \in Lens : \A m \in Lens : m <= n

OpenMessageThread(c, contactId) ==
    /\ Ready(c)
    /\ FriendHandled(c, openMessageThread(Env(c), contactId),
                     "openMessageThread")

SendMessage(c, contactId, message) ==
    /\ Ready(c)
    /\ LongestConversation(c) < MaxMessages
    /\ FriendHandled(c, sendMessage(Env(c), contactId, message),
                     "sendMessage")

InitMessages ==
    /\ js = [c \in Clients |-> InitialJs]
    /\ \E stored \in StoredMessages :
           localStorage = [c \in Clients |->
               IF c = "c1"
               THEN [EmptyStorage EXCEPT !.messages = JSON_stringify(stored)]
               ELSE EmptyStorage]
    /\ location = [c \in Clients |-> RootPath]
    /\ auth = [c \in Clients |->
                  IF c = "c1" THEN [user |-> "u1", events |-> <<"u1">>]
                  ELSE [user |-> NoUser, events |-> <<NoUser>>]]
    /\ accounts = [u \in Uids |-> "verified"]
    /\ \E contacts \in DocContacts :
           userDocs = [u \in Uids |->
                          [username |-> RegisteredDoc(u).username,
                           email |-> RegisteredDoc(u).email,
                           interests |-> RegisteredDoc(u).interests,
                           friends |-> Arr(<<>>),
                           friendRequests |-> Arr(<<>>),
                           messages |-> Arr(contacts)]]
    /\ postDocs = NoPosts
    /\ inflight = [c \in Clients |-> Idle]
    /\ passwordCheck = NoPasswordCheck
    /\ last = [op |-> "none", client |-> "c1", outcome |-> "ok",
               calls |-> <<>>, form |-> NoForm,
               session |-> "none", stage |-> "none", afterSignOut |-> FALSE,
               navAtReload |-> [page |-> "none", userId |-> Null]]

NextMessages ==
    \/ Reload("c1")
    \/ DOMContentLoaded("c1")
    \/ \E dbFails \in BOOLEAN : AuthStateChanged("c1", dbFails)
    \/ \E t \in OpenTargets : OpenMessageThread("c1", t)
    \/ \E t \in MessageContacts, m \in MessageTexts : SendMessage("c1", t, m)

SpecMessages == InitMessages /\ [][NextMessages]_vars


(***************************************************************************)
(* Properties                                                              *)
(***************************************************************************)

\* C1: the dashboard is displayed only for a signed-in user whose profile
\* comes from the browser's auth session, and that session's email is verified.
DashboardRequiresVerifiedSession ==
    \A c \in Clients :
        js[c].currentPage = "dashboard" =>
            /\ js[c].currentUser # Null
            /\ auth[c].user # NoUser
            /\ js[c].currentUser.uid = Str(auth[c].user)
            /\ accounts[auth[c].user] = "verified"

\* C2: a sign-up or a profile edit submitted with fewer than 8 selected
\* interests creates no account, writes no user document, leaves currentUser
\* and users as they are, and the sign-up does not go on.
RejectsFewInterests ==
    [][\A c \in Clients :
          (/\ last'.client = c
           /\ last'.op \in {"submitSignUp", "submitEditProfile"}
           /\ Len(js[c].selectedInterests) < MinInterests)
          => /\ accounts' = accounts
             /\ userDocs' = userDocs
             /\ js'[c].currentUser = js[c].currentUser
             /\ js'[c].users = js[c].users
             /\ last'.calls = <<>>
             /\ inflight'[c].signUp = inflight[c].signUp]_vars

\* a complete sign-up form turned down for having seven interests
SignUpWithSevenInterests ==
    /\ last.op = "submitSignUp"
    /\ last.outcome = "tooFewInterests"
    /\ Len(js[last.client].selectedInterests) = MinInterests - 1

\* C3: when a user document holds the lower-cased requested username,
\* submitSignUp creates no account, sends no verification email and writes
\* no user document.
DuplicateUsernameRejected ==
    [][\A c \in Clients :
          (/\ last'.client = c
           /\ last'.op = "submitSignUp"
           /\ usernameQuery(userDocs, toLowerCase(last'.form.username)) # {})
          => /\ accounts' = accounts
             /\ userDocs' = userDocs
             /\ \A i \in 1..Len(last'.calls) :
                    last'.calls[i] \notin {"createUser", "sendEmailVerification",
                                          "set"}
             /\ inflight'[c].signUp.pc = "idle"]_vars

\* "Amy" is turned down because a document holds "amy"
MixedCaseDuplicateTurnedDown ==
    /\ last.op = "submitSignUp"
    /\ last.outcome = "duplicateUsername"
    /\ last.form.username = "Amy"
    /\ usernameQuery(userDocs, "amy") # {}

\* C4: no two user documents hold the same username, compared without case.
UsernamesUnique ==
    \A u1, u2 \in Uids :
        (u1 # u2 /\ userDocs[u1] # NoDoc /\ userDocs[u2] # NoDoc) =>
            toLowerCase(userDocs[u1].username) # toLowerCase(userDocs[u2].username)

\* C5: validatePassword accepts exactly the passwords of 8 or more characters
\* with an uppercase letter, a lowercase letter and a digit, and a sign-up
\* goes on to create the account only with an accepted password.
PasswordAcceptedIffStrong ==
    LET password == passwordCheck.input
        strong == /\ Len(password) >= MinLength
                  /\ HasChar(password, UpperChars)
                  /\ HasChar(password, LowerChars)
                  /\ HasChar(password, DigitChars)
    IN /\ passwordCheck.result # "none" =>
              (passwordCheck.result = "accepted" <=> strong)
       /\ inflight["c2"].signUp.pc = "awaiting" =>
              passwordCheck.result = "accepted"

\* the handlers that write to the posts collection
PostWriters ==
    {"publishPost", "toggleLike", "toggleLike.update", "handleCommentSubmit",
     "sharePost", "saveEditPost", "executeDeletePost"}

RejectedCalls ==
    {"add.rejected", "get.rejected", "update.rejected", "delete.rejected"}

\* C7: when the backend rejects a call of publishPost, toggleLike,
\* handleCommentSubmit, sharePost, saveEditPost or executeDeletePost, the
\* handler ends in its catch block with a "danger" notification, and the
\* rejected call is the only backend call it attempted after the ones that
\* succeeded: it is made once and nothing follows it.
BackendFailureCaughtOnce ==
    \A i \in 1..Len(last.calls) :
        (last.op \in PostWriters /\ last.calls[i] \in RejectedCalls) =>
            /\ last.outcome = "failed"
            /\ js[last.client].notification = "danger"
            /\ i = Len(last.calls)
            /\ \A j \in 1..Len(last.calls) :
                   last.calls[j] \in RejectedCalls => j = i

\* the update of a like is rejected after its read succeeded
LikeUpdateRejected ==
    /\ last.op = "toggleLike.update"
    /\ last.calls = <<"get", "update.rejected">>
    /\ js[last.client].notification = "danger"

\* the in-memory collection that initializeApp loads from a persisted key
Collection(e, k) ==
    CASE k = "users" -> e.js.users
      [] k = "posts" -> e.js.posts
      [] k = "messages" -> e.js.messages
      [] k = "news_subscriptions" -> e.js.userNewsSubscriptions
      [] k = "current_user" -> IF e.js.currentUser = Null THEN <<>>
                               ELSE <<e.js.currentUser>>

\* C6: whenever a page is about to run initializeApp, every persisted key
\* whose value cannot be parsed is removed by initializeApp, and initializeApp
\* ends with that key's collection empty.
CorruptKeysAreDeleted ==
    \A c \in Clients :
        js[c].phase = "loading" =>
            LET e == initializeApp(Env(c))
            IN \A k \in PersistedKeys :
                   localStorage[c][k] = Corrupt =>
                       /\ e.ls[k] = Absent
                       /\ Collection(e, k) = <<>>

\* C8: when signOut has run, whether the backend sign-out succeeded or threw,
\* currentUser is null and the landing page is displayed.
SignOutClearsSession ==
    \A c \in Clients :
        (last.op = "signOut" /\ last.client = c) =>
            /\ js[c].currentUser = Null
            /\ js[c].currentPage = "landing"

\* a signed-in user's signOut whose backend call threw
SignOutAfterBackendFailure ==
    /\ last.op = "signOut"
    /\ last.outcome = "threw"
    /\ last.session = "signedOut"
    /\ auth[last.client].user # NoUser

\* C9: after sign-in, signOut and a reload whose auth listener reports no
\* user, currentUser is null and the dashboard is not displayed.
SignedOutSessionStaysOut ==
    \A c \in Clients :
        (last.client = c /\ last.stage = "settledNoUser" /\ last.afterSignOut) =>
            /\ js[c].currentUser = Null
            /\ js[c].currentPage # "dashboard"

\* C10: a stored navigation state 'dashboard' or 'profile' of X is not
\* replaced by 'landing' between the reload and the restoration, and once the
\* auth listener has loaded the verified user the stored page is displayed
\* (for 'profile', the profile of X).
NavigationStateSurvivesReload ==
    \A c \in Clients :
        LET before == last.navAtReload
            now == getNavigationState(Env(c))
        IN (last.client = c /\ before.page \in {"dashboard", "profile"}) =>
              /\ last.stage = "initialized" => now.page # "landing"
              /\ last.stage = "settledUser" =>
                    /\ js[c].currentPage = before.page
                    /\ before.page = "profile" => now.userId = before.userId

\* C11: for every path, the chain of redirects that handleRoute starts ends,
\* whatever currentUser and users are, and with currentUser null it ends on
\* the landing page.
RoutesGuardedAndTerminate ==
    \A c \in Clients, path \in RoutePaths :
        LET Ends(r) ==
                /\ r.done
                /\ js[c].currentUser = Null => r.env.js.currentPage = "landing"
        IN Ends(FollowRoute([Env(c) EXCEPT !.path = path], path, MaxRedirects))

\* a guest who asked for a protected path was redirected to the landing page
GuestRedirectedToLanding ==
    /\ last.op = "handleRoute"
    /\ last.outcome = "redirected"
    /\ js[last.client].currentUser = Null
    /\ js[last.client].currentPage = "landing"
    /\ location[last.client] = Path("home")

\* C12: loadSampleData leaves users and posts unchanged when users is
\* non-empty; when users is empty and truefew_posts holds posts, the stored
\* posts are kept by loadSampleData and by the saveDataToStorage that follows.
SampleDataKeepsRealData ==
    \A c \in Clients :
        js[c].phase = "loading" =>
            LET Kept(i, s) ==
                    /\ Len(i.js.users) > 0 =>
                           /\ s.js.users = i.js.users
                           /\ s.js.posts = i.js.posts
                    /\ (/\ Len(i.js.users) = 0
                        /\ i.ls.posts.kind = "json"
                        /\ Len(JSON_parse(i.ls.posts)) > 0) =>
                           /\ s.ls.posts = i.ls.posts
                           /\ saveDataToStorage(s).ls.posts = i.ls.posts
                Seeded(i) == Kept(i, loadSampleData(i))
            IN Seeded(initializeApp(Env(c)))

\* C13: navbarUpdateInProgress is true only while updateNavbarForSignedInUser
\* is executing, it is false after every return from it, also when the body
\* threw, and no call of the function is skipped because of the flag.
NavbarFlagReleased ==
    /\ \A c \in Clients :
           js[c].navbarUpdateInProgress => js[c].phase \in NavbarPhases
    /\ ~(last.op = "updateNavbar" /\ last.outcome = "skipped")

\* updateNavbarForSignedInUser has returned after its body threw
NavbarReturnedAfterThrow ==
    /\ last.op = "updateNavbarForSignedInUser"
    /\ last.outcome = "returnedAfterThrow"
    /\ js[last.client].phase = "ready"
    /\ js[last.client].isSignedInMode

Members(list) == {list[i] : i \in 1..Len(list)}

\* C14: when a user's toggleLike has read the post and writes it, the
\* membership of every other user's uid in the post's likes is the same after
\* the write as in the store just before the write.
LikeToggleAffectsOnlyToggler ==
    \A c \in Clients :
        inflight[c].toggleLike.pc = "read" =>
            LET postId == inflight[c].toggleLike.postId
                Others == Uids \ {ClientUid(c)}
                Written(r) ==
                    r.outcome = "ok" =>
                        \A u \in Others :
                            u \in Members(r.postDocs[postId].likes)
                                <=> u \in Members(postDocs[postId].likes)
            IN Written(toggleLikeUpdate(Env(c), postDocs, inflight[c].toggleLike,
                                        FALSE))

\* toggleLike run from its first statement to its last with no failing call
toggleLike(e, docs, postId) ==
    LET Write(g) ==
            IF g.outcome # "read" THEN docs
            ELSE toggleLikeUpdate(g.env, docs,
                     [pc |-> "read", postId |-> postId, likes |-> g.likes],
                     FALSE).postDocs
    IN Write(toggleLikeGet(e, docs, postId, FALSE))

\* C15: with a single writer, a successful toggleLike of a signed-in user
\* makes their uid a member of the post's likes iff it was not one before and
\* keeps every other membership, two successive toggles give back the
\* original set of likes, no uid is in a post's likes twice, and toggleLike
\* with currentUser null or on a missing post changes no post.
ToggleLikeIsInvolution ==
    /\ \A p \in PostIds :
           postDocs[p] # NoDoc =>
               Cardinality(Members(postDocs[p].likes)) = Len(postDocs[p].likes)
    /\ \A c \in Clients, p \in PostIds :
           LET Toggled(once, twice) ==
                   IF js[c].currentUser = Null \/ postDocs[p] = NoDoc
                   THEN once = postDocs
                   ELSE /\ \A u \in Uids :
                              u \in Members(once[p].likes) <=>
                                  IF Str(u) = js[c].currentUser.uid
                                  THEN u \notin Members(postDocs[p].likes)
                                  ELSE u \in Members(postDocs[p].likes)
                        /\ Members(twice[p].likes) = Members(postDocs[p].likes)
                        /\ [once EXCEPT ![p].likes = <<>>]
                               = [postDocs EXCEPT ![p].likes = <<>>]
               Twice(once) == Toggled(once, toggleLike(Env(c), once, p))
           IN Twice(toggleLike(Env(c), postDocs, p))

\* the signed-in user has taken back their like from a post that another
\* user likes
LikeTakenBack ==
    /\ last.op = "toggleLike.update"
    /\ last.outcome = "ok"
    /\ postDocs["p1"] # NoDoc
    /\ Members(postDocs["p1"].likes) = {"u2"}

Occurrences(list, x) == Cardinality({i \in 1..Len(list) : strictEq(list[i], x)})

UserIds == {Str(u) : u \in Uids} \cup {Num("1"), Num("2"), Num("3")}

\* the friendRequests arrays of the users of an environment
RequestsOf(e) ==
    [i \in 1..Len(e.js.users) |-> OrEmpty(e.js.users[i].friendRequests).v]

StoredUsers(c) ==
    IF localStorage[c].users.kind = "json"
    THEN JSON_parse(localStorage[c].users) ELSE <<>>

\* C16: the friendRequests of a user hold a sender id at most once, in the
\* page and in storage, and sendFriendRequest adds nothing when nobody is
\* signed in, when the target is not in users and when the target is one of
\* the sender's friends.
FriendRequestsNotDuplicated ==
    \A c \in Clients :
        /\ \A i \in 1..Len(js[c].users), id \in UserIds :
               Occurrences(OrEmpty(js[c].users[i].friendRequests).v, id) <= 1
        /\ \A i \in 1..Len(StoredUsers(c)), id \in UserIds :
               Occurrences(OrEmpty(StoredUsers(c)[i].friendRequests).v, id) <= 1
        /\ \A t \in SendTargets :
               LET Refused ==
                       IF js[c].currentUser = Null THEN TRUE
                       ELSE \/ FindIndexById(js[c].users, t) = 0
                            \/ Includes(OrEmpty(js[c].currentUser.friends).v, t)
                   Sent(r) ==
                       Refused => /\ RequestsOf(r.env) = RequestsOf(Env(c))
                                  /\ r.env.ls = localStorage[c]
               IN Sent(sendFriendRequest(Env(c), t))

\* a request sent a second time was turned down and is listed once
SecondRequestTurnedDown ==
    /\ last.op = "sendFriendRequest"
    /\ last.outcome = "alreadySent"
    /\ \E i \in 1..Len(js[last.client].users) :
           Occurrences(OrEmpty(js[last.client].users[i].friendRequests).v,
                       js[last.client].currentUser.id) = 1

\* the entry of a user id in a list of users, Null when there is none
EntryOf(list, id) == FindUser(list, LAMBDA u : strictEq(u.id, id))

FriendsOf(u) == OrEmpty(u.friends).v

\* b is in a.friends iff a is in b.friends, for all users of the list
Mutual(list) ==
    \A i, j \in 1..Len(list) :
        Includes(FriendsOf(list[i]), list[j].id)
            <=> Includes(FriendsOf(list[j]), list[i].id)

\* C17: after acceptFriendRequest(r) by user c with r among c's pending
\* requests, and its saveDataToStorage, r is in c's friends, c is in r's
\* friends and r is not in c's friendRequests, in currentUser and in the
\* users written to storage, and the stored users stay mutual friends.
AcceptedFriendshipIsMutual ==
    \A c \in Clients, r \in FriendIds :
        LET cu == js[c].currentUser
            Accepted(a) ==
                LET stored == JSON_parse(a.ls.users)
                    me == EntryOf(stored, cu.id)
                    requester == EntryOf(stored, r)
                IN /\ Includes(a.js.currentUser.friends.v, r)
                   /\ ~Includes(a.js.currentUser.friendRequests.v, r)
                   /\ requester # Null => Includes(FriendsOf(requester), cu.id)
                   /\ me # Null =>
                          /\ Includes(FriendsOf(me), r)
                          /\ ~Includes(OrEmpty(me.friendRequests).v, r)
                   /\ Mutual(UsersToJSON(js[c].users)) => Mutual(stored)
        IN (/\ Ready(c)
            /\ cu # Null
            /\ Includes(OrEmpty(cu.friendRequests).v, r))
               => Accepted(acceptFriendRequest(Env(c), r).env)

\* no id is listed twice in the friends of a user
FriendsListedOnce(u) ==
    \A id \in UserIds : Occurrences(FriendsOf(u), id) <= 1

\* C18: acceptFriendRequest(r) adds r to currentUser.friends only if r is in
\* currentUser.friendRequests when it is called, and no friends list, of
\* currentUser, of the users of the page or of the stored users, holds an id
\* more than once.
FriendshipNeedsPendingRequest ==
    \A c \in Clients :
        /\ js[c].currentUser # Null => FriendsListedOnce(js[c].currentUser)
        /\ \A i \in 1..Len(js[c].users) : FriendsListedOnce(js[c].users[i])
        /\ \A i \in 1..Len(StoredUsers(c)) : FriendsListedOnce(StoredUsers(c)[i])
        /\ \A r \in FriendIds :
               LET cu == js[c].currentUser
                   Added(a) == FriendsOf(a.js.currentUser) = FriendsOf(cu)
               IN (/\ Ready(c)
                   /\ cu # Null
                   /\ ~Includes(OrEmpty(cu.friendRequests).v, r))
                      => Added(acceptFriendRequest(Env(c), r).env)


(***************************************************************************)
(* C19: opening the thread with a contact found in users marks every       *)
(* message of the conversation sent by the contact as read, leaves the     *)
(* read flag of the messages sent by the current user as it was, and       *)
(* getUnreadMessagesCount is then the number of unread messages sent to    *)
(* the current user by the other contacts of currentUser.messages.         *)
(***************************************************************************)
ContactsOf(u) ==
    IF IsArray(u.messages) THEN {u.messages.v[i] : i \in 1..Len(u.messages.v)}
    ELSE {}

\* the unread messages sent to the user by somebody of senders
UnreadFrom(msgs, me, senders) ==
    {<<k, i>> \in UNION {{k} \X (1..Len(msgs[k])) : k \in DOMAIN msgs} :
        /\ msgs[k][i].receiverId = me
        /\ msgs[k][i].senderId \in senders
        /\ ~msgs[k][i].read}

ThreadMarkedRead(e, contactId) ==
    LET me == e.js.currentUser.id
        before == e.js.messages
        opened == openMessageThread(e, contactId).env
        after == opened.js.messages
        conversation == ConversationOf(after, conversationId(me, contactId))
    IN /\ \A i \in 1..Len(conversation) :
              conversation[i].senderId = contactId => conversation[i].read
       /\ DOMAIN after = DOMAIN before
       /\ \A k \in DOMAIN before :
              /\ Len(after[k]) = Len(before[k])
              /\ \A i \in 1..Len(before[k]) :
                     before[k][i].senderId = me =>
                         after[k][i].read = before[k][i].read
       /\ getUnreadMessagesCount(opened) =
              Cardinality(UnreadFrom(after, me,
                  ContactsOf(opened.js.currentUser) \ {contactId}))

OpeningThreadMarksItRead ==
    \A c \in Clients, contactId \in OpenTargets :
        (/\ Ready(c)
         /\ js[c].currentUser # Null
         /\ FindIndexById(js[c].users, contactId) # 0)
        => ThreadMarkedRead(Env(c), contactId)

ThreadOpenedWithOthersUnread ==
    /\ last.op = "openMessageThread"
    /\ last.outcome = "opened"
    /\ ConversationOf(js["c1"].messages,
                      conversationId(Str("u1"), Num("2")))
           = <<Message(Str("u1"), Num("2"), FALSE),
               Message(Num("2"), Str("u1"), TRUE)>>
    /\ getUnreadMessagesCount(Env("c1")) = 1

====
